---- MODULE Spec2Model ----
(***************************************************************************)
(* Model of atomic_reactor/plugins/build_orchestrate_build.py: the         *)
(* orchestrator plugin that starts one worker build per platform, each on  *)
(* the least loaded usable cluster, monitors them and aggregates the       *)
(* per-platform outcomes.                                                  *)
(*                                                                         *)
(* One task per platform runs select_and_start_cluster; run() is the       *)
(* supervisor.  Remote calls (load query, create_worker_build, log         *)
(* streaming, wait_for_build_to_finish, cancel_build) are the suspension   *)
(* points, so each of them is one action and its outcome is chosen by the  *)
(* environment.  Time is counted in ticks; retry_at is kept as the number  *)
(* of ticks that remain until it (0: retry_at is not in the future).       *)
(***************************************************************************)
EXTENDS Integers, Sequences, FiniteSets, TLC

\* ---------------------------------------------------------------- bounds
\* plugin argument max_cluster_fails (the source's default is 20)
MaxClusterFails == 2
\* clock ticks per second: time.sleep() is given whole seconds only
TicksPerSecond == 2
\* plugin argument find_cluster_retry_delay, in ticks
FindClusterRetryDelay == 2
\* plugin argument failure_retry_delay, in ticks
FailureRetryDelay == 1
\* the largest number of active builds a load query reports
MaxActiveBuilds == 1

\* ------------------------------------------------------------- constants
AllPlatforms == {"x86_64", "ppc64le"}
ClusterNames == {"a", "b"}
NoBuild == "None"
AllClustersFailedMsg == "Could not find appropriate cluster for worker build."
UploadDirs == {"koji-upload/dir-1"}
Absent == "<absent>"
\* override_kwargs uses None as the key of the overrides for all platforms
NoneKey == "None"

VARIABLES
    platforms,          \* self.platforms
    enabled,            \* reactor_config: platform -> enabled cluster names
    cluster_conf,       \* cluster name -> [priority, max_concurrent_builds]
    build_kwargs,       \* self.build_kwargs
    override_kwargs,    \* workspace[WORKSPACE_KEY_OVERRIDE_KWARGS]
    koji_upload_dir,    \* self.koji_upload_dir
    fs_task_id,         \* self.fs_task_id
    reactor_config,     \* self.reactor_config: "default" or a configuration
    pc,                 \* platform -> position of its task
    fails,              \* platform -> cluster -> ClusterRetryContext.fails
    retry_in,           \* platform -> cluster -> ticks until retry_at
    candidates,         \* platform -> get_clusters' candidates
    todo,               \* platform -> clusters the for loop has yet to visit
    possible_cluster_info, \* platform -> sequence of ClusterInfo
    sleep_left,         \* platform -> ticks left of time.sleep()
    build,              \* platform -> WorkerBuildInfo.build (status or None)
    bi_cluster,         \* platform -> WorkerBuildInfo.cluster
    monitor_exception,  \* platform -> WorkerBuildInfo.monitor_exception
    worker_builds,      \* self.worker_builds, as the platforms of its entries
    remote,             \* platform -> state of its build on the cluster
    last_call,          \* platform -> the last load query or launch its task made
    cancel_calls,       \* platform -> cancel requests the cluster received
    own_cancels,        \* platform -> cancel requests made by its task
    sup,                \* position of run()
    cancel_todo,        \* builds the cancelling pool has yet to visit
    live_at_cancel,     \* recorded builds that were live when run() was interrupted
    trigger,            \* the exception that result.get() raised in run()
    result_ready,       \* result.ready() after thread_pool.terminate()
    raised,             \* the exception run() ended with
    fail_reasons,       \* run()'s fail_reasons
    workspace           \* plugin_workspace[key]

cfgvars == <<platforms, enabled, cluster_conf, koji_upload_dir, fs_task_id, reactor_config>>
kwvars == <<build_kwargs, override_kwargs>>
ctxvars == <<fails, retry_in>>
selvars == <<candidates, todo, possible_cluster_info, sleep_left>>
bivars == <<build, bi_cluster, monitor_exception, worker_builds>>
remvars == <<remote, last_call, cancel_calls, own_cancels>>
supvars == <<sup, cancel_todo, live_at_cancel, trigger, result_ready, raised, fail_reasons,
             workspace>>
vars == <<cfgvars, kwvars, pc, ctxvars, selvars, bivars, remvars, supvars>>

\* ------------------------------------------------------------ dictionaries
\* d1.update(d2)
Update(d1, d2) ==
    [k \in (DOMAIN d1) \cup (DOMAIN d2) |-> IF k \in DOMAIN d2 THEN d2[k] ELSE d1[k]]

\* d.pop(key, None)
Pop(d, key) == [k \in (DOMAIN d) \ {key} |-> d[k]]

EmptyDict == [k \in {} |-> Absent]

\* ------------------------------------------------------ ClusterRetryContext
\* a cluster is dead one failure too late
failed_OffByOne(p, c) == fails[p][c] > MaxClusterFails

\* ClusterRetryContext.failed
failed(p, c) == fails[p][c] >= MaxClusterFails

\* no cluster is ever taken as waiting for its retry
in_retry_wait_Never(p, c) == FALSE

\* a cluster that has failed stays in retry wait
in_retry_wait_AfterAnyFailure(p, c) == retry_in[p][c] > 0 \/ fails[p][c] > 0

\* ClusterRetryContext.in_retry_wait
in_retry_wait(p, c) == retry_in[p][c] > 0

\* one context per cluster name, shared by the tasks of all platforms
try_again_later_Shared(p, c, delay) ==
    IF ~failed(p, c)
    THEN [fails |-> [q \in AllPlatforms |-> [fails[q] EXCEPT ![c] = @ + 1]],
          retry_in |-> [q \in AllPlatforms |-> [retry_in[q] EXCEPT ![c] = delay]]]
    ELSE [fails |-> fails, retry_in |-> retry_in]

\* a failure sets the next retry time and is not counted
try_again_later_NotCounted(p, c, delay) ==
    IF ~failed(p, c)
    THEN [fails |-> fails,
          retry_in |-> [retry_in EXCEPT ![p] = [retry_in[p] EXCEPT ![c] = delay]]]
    ELSE [fails |-> fails, retry_in |-> retry_in]

\* every failure is counted, those of a dead cluster too
try_again_later_Always(p, c, delay) ==
    [fails |-> [fails EXCEPT ![p][c] = @ + 1],
     retry_in |-> [retry_in EXCEPT ![p][c] = delay]]

\* ClusterRetryContext.try_again_later: the contexts of platform p after it
try_again_later(p, c, delay) ==
    IF ~failed(p, c)
    THEN [fails |-> [fails EXCEPT ![p][c] = @ + 1],
          retry_in |-> [retry_in EXCEPT ![p][c] = delay]]
    ELSE [fails |-> fails, retry_in |-> retry_in]

\* ------------------------------------------------------------------ sorting
\* sorted(s, key=...): a stable sort, leq[<<x, y>>] being key(x) <= key(y)
Insert(t, x, leq) ==
    LET k == Cardinality({i \in 1..Len(t) : leq[<<t[i], x>>]})
    IN SubSeq(t, 1, k) \o <<x>> \o SubSeq(t, k + 1, Len(t))

Sorted(s, leq) ==
    LET f[i \in 0..Len(s)] == IF i = 0 THEN <<>> ELSE Insert(f[i - 1], s[i], leq)
    IN f[Len(s)]

Range(s) == {s[i] : i \in DOMAIN s}

\* the orders in which a set can be iterated
Orders(S) == {s \in [1..Cardinality(S) -> S] : \A c \in S : \E i \in DOMAIN s : s[i] = c}

PriorityLeq(c1, c2) == cluster_conf[c1].priority <= cluster_conf[c2].priority

\* ClusterInfo.load is active / max_concurrent_builds; two loads compare as
\* their cross products do
LoadLeq(i1, i2) ==
    i1.active * cluster_conf[i2.cluster].max_concurrent_builds
        <= i2.active * cluster_conf[i1.cluster].max_concurrent_builds

InfoPriorityLeq(i1, i2) == PriorityLeq(i1.cluster, i2.cluster)

\* the three sort keys, as orders
ByPriority == [pr \in ClusterNames \X ClusterNames |-> PriorityLeq(pr[1], pr[2])]

ByInfoPriority(infos) ==
    [pr \in Range(infos) \X Range(infos) |-> InfoPriorityLeq(pr[1], pr[2])]

ByLoad(infos) == [pr \in Range(infos) \X Range(infos) |-> LoadLeq(pr[1], pr[2])]

\* the two sorts in the other order: priority decides, load breaks ties
RankClusters_PriorityLast(infos) ==
    Sorted(Sorted(infos, ByLoad(infos)), ByInfoPriority(infos))

\* get_clusters' return value: by priority, then (stable) by load
RankClusters(infos) == Sorted(Sorted(infos, ByInfoPriority(infos)), ByLoad(infos))

\* ------------------------------------------------------------ build status

\* BuildResponse.is_finished
is_finished(b) == b \in {"Complete", "Failed", "Cancelled"}

\* every finished build counts as succeeded
is_succeeded_AnyFinished(b) == b \in {"Complete", "Failed", "Cancelled"}

\* BuildResponse.is_succeeded
is_succeeded(b) == b = "Complete"

\* ------------------------------------------------------------------- inputs
\* the value of reactor_config_override for a build on cluster c
ReactorConfigOverride(c) == IF c = "a" THEN "rcm, openshift: a" ELSE "rcm, openshift: b"

\* every platform is given an upload directory of its own
get_worker_build_kwargs_OwnDir(self_kw, release, platform, upload_dir, task_id, rconf, c) ==
    [kwargs |-> Update(Pop(self_kw, "architecture"),
                       [x \in {"release", "platform", "koji_upload_dir"} |->
                           CASE x = "release" -> release
                             [] x = "platform" -> platform
                             [] OTHER -> IF platform = "x86_64" THEN upload_dir
                                         ELSE "koji-upload/dir-2"]),
     self_build_kwargs |-> self_kw]

\* get_worker_build_kwargs: the kwargs it returns, and self.build_kwargs as it
\* leaves them (it works on a deepcopy)
get_worker_build_kwargs(self_kw, release, platform, upload_dir, task_id, rconf, c) ==
    LET k0 == Pop(self_kw, "architecture")
        k1 == Update(k0, [x \in {"release", "platform", "koji_upload_dir"} |->
                            CASE x = "release" -> release
                              [] x = "platform" -> platform
                              [] OTHER -> upload_dir])
        k2 == IF task_id # "None"
              THEN Update(k1, [x \in {"filesystem_koji_task_id"} |-> task_id])
              ELSE k1
        k3 == IF rconf # "default"
              THEN Update(k2, [x \in {"reactor_config_override"} |->
                                 ReactorConfigOverride(c)])
              ELSE k2
    IN [kwargs |-> k3, self_build_kwargs |-> self_kw]

\* the overrides applied in the other order: those for all platforms win
WorkerKwargs_NoneLast(base, overrides, platform) ==
    LET k1 == IF platform \in DOMAIN overrides THEN Update(base, overrides[platform])
              ELSE base
        k2 == IF NoneKey \in DOMAIN overrides THEN Update(k1, overrides[NoneKey])
              ELSE k1
    IN [kwargs |-> k2, override_kwargs |-> overrides]

\* do_worker_build, lines 509-516: the kwargs given to create_worker_build, and
\* the stored overrides as the updates leave them
WorkerKwargs(base, overrides, platform) ==
    LET k1 == IF NoneKey \in DOMAIN overrides THEN Update(base, overrides[NoneKey])
              ELSE base
        k2 == IF platform \in DOMAIN overrides THEN Update(k1, overrides[platform])
              ELSE k1
    IN [kwargs |-> k2, override_kwargs |-> overrides]

Release == "10"

\* the build parameters, overrides and configuration a run may start with
BuildKwargsInputs ==
    { [k \in {"user"} |-> "bacon"],
      [k \in {"user", "architecture", "release"} |->
          CASE k = "user" -> "bacon" [] k = "architecture" -> "amd64" [] OTHER -> "1"] }

OverrideDicts ==
    { [k \in {"release"} |-> "4242"],
      [k \in {"release", "user"} |-> IF k = "release" THEN "1111" ELSE "spam"] }

OverrideInputs ==
    {EmptyDict}
    \cup {[k \in {NoneKey} |-> d] : d \in OverrideDicts}
    \cup {[k \in {"x86_64"} |-> d] : d \in OverrideDicts}
    \cup {[k \in {NoneKey, "x86_64"} |-> IF k = NoneKey THEN d1 ELSE d2] :
            d1 \in OverrideDicts, d2 \in OverrideDicts}

\* cluster configurations: priority and max_concurrent_builds of each cluster
ClusterConfs == [ClusterNames -> [priority : {0, 1}, max_concurrent_builds : {1, 2}]]

\* ------------------------------------------------------------- calls made
\* a call to a cluster as the cluster sees it (list_builds for the load,
\* create_worker_build), with the retry context its caller held for it
Call(op, p, c, kw) ==
    [op |-> op, cluster |-> c, fails |-> fails[p][c], retry_in |-> retry_in[p][c],
     kwargs |-> kw]

NoCall == [op |-> "none", cluster |-> "None", fails |-> 0, retry_in |-> 0,
           kwargs |-> EmptyDict]

\* ---------------------------------------------------------------- __init__
InitTask ==
    /\ pc = [p \in AllPlatforms |-> "idle"]
    /\ fails = [p \in AllPlatforms |-> [c \in ClusterNames |-> 0]]
    /\ retry_in = [p \in AllPlatforms |-> [c \in ClusterNames |-> 0]]
    /\ candidates = [p \in AllPlatforms |-> {}]
    /\ todo = [p \in AllPlatforms |-> <<>>]
    /\ possible_cluster_info = [p \in AllPlatforms |-> <<>>]
    /\ sleep_left = [p \in AllPlatforms |-> 0]
    /\ build = [p \in AllPlatforms |-> NoBuild]
    /\ bi_cluster = [p \in AllPlatforms |-> "None"]
    /\ monitor_exception = [p \in AllPlatforms |-> "None"]
    /\ worker_builds = <<>>
    /\ remote = [p \in AllPlatforms |-> NoBuild]
    /\ last_call = [p \in AllPlatforms |-> NoCall]
    /\ cancel_calls = [p \in AllPlatforms |-> 0]
    /\ own_cancels = [p \in AllPlatforms |-> 0]
    /\ sup = "init"
    /\ cancel_todo = {}
    /\ live_at_cancel = {}
    /\ trigger = "None"
    /\ result_ready = FALSE
    /\ raised = "None"
    /\ fail_reasons = EmptyDict
    /\ workspace = [koji_upload_dir |-> Absent, build_info |-> EmptyDict]

\* the state after __init__, for given platforms, clusters and parameters
InitWith(ps, en, cc, bk, ov, task_id, rconf) ==
    /\ platforms = ps
    /\ enabled = en
    /\ cluster_conf = cc
    /\ koji_upload_dir \in UploadDirs
    /\ fs_task_id = task_id
    /\ reactor_config = rconf
    /\ build_kwargs = bk
    /\ override_kwargs = ov
    /\ InitTask

DefaultConf == [c \in ClusterNames |-> [priority |-> 0, max_concurrent_builds |-> 1]]

\* a dispatch over any set of platforms, each with one cluster of the same
\* name, or ppc64le with none
Init ==
    \E ps \in SUBSET AllPlatforms, e \in {{}, {"a"}} :
        InitWith(ps, [p \in AllPlatforms |-> IF p = "x86_64" THEN {"a"} ELSE e],
                 DefaultConf, [k \in {"user"} |-> "bacon"],
                 [k \in {NoneKey} |-> [x \in {"release"} |-> "4242"]], "None", "default")

\* a dispatch for one platform with two clusters of any priorities and sizes
\* (or with no cluster)
InitSelect ==
    \E cc \in ClusterConfs, e \in {{}, {"a", "b"}} :
        InitWith({"x86_64"}, [p \in AllPlatforms |-> IF p = "x86_64" THEN e ELSE {}],
                 cc, [k \in {"user"} |-> "bacon"], EmptyDict, "None", "default")

\* a dispatch for one platform with one cluster and any build parameters
InitKwargs ==
    \E bk \in BuildKwargsInputs, ov \in OverrideInputs, t \in {"None", "1234567"},
       rc \in {"default", "rcm"}, e \in {{}, {"a"}, {"b"}} :
        InitWith({"x86_64"}, [p \in AllPlatforms |-> IF p = "x86_64" THEN e ELSE {}],
                 DefaultConf, bk, ov, t, rc)

\* ------------------------------------------------------------------ helpers
Finished(p) == pc[p] \in {"done", "raised"}

AllFinished == \A p \in platforms : Finished(p)

\* the task drops its locals and goes back to look for a cluster
Return_SelectAgain(p) ==
    /\ pc' = [pc EXCEPT ![p] = "get_clusters"]
    /\ fails' = [fails EXCEPT ![p] = [c \in ClusterNames |-> 0]]
    /\ retry_in' = [retry_in EXCEPT ![p] = [c \in ClusterNames |-> 0]]
    /\ candidates' = [candidates EXCEPT ![p] = enabled[p]]
    /\ todo' = [todo EXCEPT ![p] = <<>>]
    /\ possible_cluster_info' = [possible_cluster_info EXCEPT ![p] = <<>>]
    /\ sleep_left' = [sleep_left EXCEPT ![p] = 0]

\* select_and_start_cluster returns: its locals (the retry contexts, the
\* candidates, the ranking) end with it
Return(p) ==
    /\ pc' = [pc EXCEPT ![p] = "done"]
    /\ fails' = [fails EXCEPT ![p] = [c \in ClusterNames |-> 0]]
    /\ retry_in' = [retry_in EXCEPT ![p] = [c \in ClusterNames |-> 0]]
    /\ candidates' = [candidates EXCEPT ![p] = {}]
    /\ todo' = [todo EXCEPT ![p] = <<>>]
    /\ possible_cluster_info' = [possible_cluster_info EXCEPT ![p] = <<>>]
    /\ sleep_left' = [sleep_left EXCEPT ![p] = 0]

\* an append that loses the entries of the other tasks
AppendBuildInfo_Lost(p, b, c, exc) ==
    /\ build' = [build EXCEPT ![p] = b]
    /\ bi_cluster' = [bi_cluster EXCEPT ![p] = c]
    /\ monitor_exception' = [monitor_exception EXCEPT ![p] = exc]
    /\ worker_builds' = <<p>>

\* WorkerBuildInfo(build, cluster_info, logger) followed by worker_builds.append
AppendBuildInfo(p, b, c, exc) ==
    /\ build' = [build EXCEPT ![p] = b]
    /\ bi_cluster' = [bi_cluster EXCEPT ![p] = c]
    /\ monitor_exception' = [monitor_exception EXCEPT ![p] = exc]
    /\ worker_builds' = Append(worker_builds, p)

\* ------------------------------------------------ select_and_start_cluster
\* a pool of one thread: a task starts only when no other task is running
SelectAndStartCluster_PoolOfOne(p) ==
    /\ pc[p] = "start"
    /\ \A q \in platforms \ {p} : pc[q] \in {"start", "done", "raised"}
    /\ IF enabled[p] = {}
       THEN /\ pc' = [pc EXCEPT ![p] = "raised"]
            /\ UNCHANGED <<ctxvars, candidates>>
       ELSE /\ pc' = [pc EXCEPT ![p] = "get_clusters"]
            /\ fails' = [fails EXCEPT ![p] = [c \in ClusterNames |-> 0]]
            /\ retry_in' = [retry_in EXCEPT ![p] = [c \in ClusterNames |-> 0]]
            /\ candidates' = [candidates EXCEPT ![p] = enabled[p]]
    /\ UNCHANGED <<cfgvars, kwvars, todo, possible_cluster_info, sleep_left, bivars,
                   remvars, supvars>>

\* lines 551-560: the platform's clusters and a fresh retry context for each
SelectAndStartCluster(p) ==
    /\ pc[p] = "start"
    /\ IF enabled[p] = {}
       THEN /\ pc' = [pc EXCEPT ![p] = "raised"]
            /\ UNCHANGED <<ctxvars, candidates>>
       ELSE /\ pc' = [pc EXCEPT ![p] = "get_clusters"]
            /\ fails' = [fails EXCEPT ![p] = [c \in ClusterNames |-> 0]]
            /\ retry_in' = [retry_in EXCEPT ![p] = [c \in ClusterNames |-> 0]]
            /\ candidates' = [candidates EXCEPT ![p] = enabled[p]]
    /\ UNCHANGED <<cfgvars, kwvars, todo, possible_cluster_info, sleep_left, bivars,
                   remvars, supvars>>

\* wait_for_any_cluster: the whole seconds to sleep for, in ticks
SleepTicks(p) ==
    LET alive == {c \in enabled[p] : ~failed(p, c)}
        earliest == CHOOSE t \in {retry_in[p][c] : c \in alive} :
                        \A c \in alive : t <= retry_in[p][c]
    IN (earliest \div TicksPerSecond) * TicksPerSecond

\* AllClustersFailedException is not caught and leaves the task
AllClustersFailed_Raises(p) ==
    /\ pc' = [pc EXCEPT ![p] = "raised"]
    /\ UNCHANGED <<ctxvars, selvars, bivars>>

\* lines 567-574: AllClustersFailedException is caught, a WorkerBuildInfo
\* without build and with the exception's message is recorded, the task returns
AllClustersFailed(p) ==
    /\ AppendBuildInfo(p, NoBuild, "None", AllClustersFailedMsg)
    /\ Return(p)

\* wait_for_any_cluster raises as soon as one context is dead
WaitForAnyCluster_AnyDead(p) ==
    /\ pc[p] = "get_clusters"
    /\ IF \E c \in enabled[p] : failed(p, c)
       THEN AllClustersFailed(p)
       ELSE /\ \E order \in Orders(candidates[p]) :
                 todo' = [todo EXCEPT ![p] = Sorted(order, ByPriority)]
            /\ sleep_left' = [sleep_left EXCEPT ![p] = SleepTicks(p)]
            /\ pc' = [pc EXCEPT ![p] = "for_clusters"]
            /\ UNCHANGED <<bivars, ctxvars, candidates, possible_cluster_info>>
    /\ UNCHANGED <<cfgvars, kwvars, remvars, supvars>>

\* get_clusters, top of the while loop: wait_for_any_cluster raises when every
\* context is dead, else sleeps
WaitForAnyCluster(p) ==
    /\ pc[p] = "get_clusters"
    /\ IF \A c \in enabled[p] : failed(p, c)
       THEN AllClustersFailed(p)
       ELSE /\ \E order \in Orders(candidates[p]) :
                 todo' = [todo EXCEPT ![p] = Sorted(order, ByPriority)]
            /\ sleep_left' = [sleep_left EXCEPT ![p] = SleepTicks(p)]
            /\ pc' = [pc EXCEPT ![p] = "for_clusters"]
            /\ UNCHANGED <<bivars, ctxvars, candidates, possible_cluster_info>>
    /\ UNCHANGED <<cfgvars, kwvars, remvars, supvars>>

\* the end of a round of a loop that goes on until every candidate has
\* answered
EndOfRound_WaitsForAll(p, fl, infos) ==
    LET cand == {c \in candidates[p] : fl[p][c] < MaxClusterFails}
        ret == RankClusters(infos)
    IN IF cand # {} /\ Len(infos) < Cardinality(cand)
       THEN /\ candidates' = [candidates EXCEPT ![p] = cand]
            /\ possible_cluster_info' = [possible_cluster_info EXCEPT ![p] = <<>>]
            /\ pc' = [pc EXCEPT ![p] = "get_clusters"]
       ELSE IF ret = <<>>
       THEN /\ candidates' = [candidates EXCEPT ![p] = enabled[p]]
            /\ possible_cluster_info' = [possible_cluster_info EXCEPT ![p] = <<>>]
            /\ pc' = [pc EXCEPT ![p] = "get_clusters"]
       ELSE /\ candidates' = [candidates EXCEPT ![p] = cand]
            /\ possible_cluster_info' = [possible_cluster_info EXCEPT ![p] = ret]
            /\ pc' = [pc EXCEPT ![p] = "launch"]

\* the end of a round of a loop that goes on for as long as nothing has
\* answered, with or without candidates
EndOfRound_NoCandidateTest(p, fl, infos) ==
    LET cand == {c \in candidates[p] : fl[p][c] < MaxClusterFails}
        ret == RankClusters(infos)
    IN IF infos = <<>>
       THEN /\ candidates' = [candidates EXCEPT ![p] = cand]
            /\ possible_cluster_info' = [possible_cluster_info EXCEPT ![p] = <<>>]
            /\ pc' = [pc EXCEPT ![p] = "get_clusters"]
       ELSE /\ candidates' = [candidates EXCEPT ![p] = cand]
            /\ possible_cluster_info' = [possible_cluster_info EXCEPT ![p] = ret]
            /\ pc' = [pc EXCEPT ![p] = "launch"]

\* the end of a round, the first cluster of the ranking being taken as
\* having a build already
EndOfRound_SkipLaunch(p, fl, infos) ==
    LET cand == {c \in candidates[p] : fl[p][c] < MaxClusterFails}
        ret == RankClusters(infos)
    IN IF cand # {} /\ infos = <<>>
       THEN /\ candidates' = [candidates EXCEPT ![p] = cand]
            /\ possible_cluster_info' = [possible_cluster_info EXCEPT ![p] = <<>>]
            /\ pc' = [pc EXCEPT ![p] = "get_clusters"]
       ELSE IF ret = <<>>
       THEN /\ candidates' = [candidates EXCEPT ![p] = enabled[p]]
            /\ possible_cluster_info' = [possible_cluster_info EXCEPT ![p] = <<>>]
            /\ pc' = [pc EXCEPT ![p] = "get_clusters"]
       ELSE /\ candidates' = [candidates EXCEPT ![p] = cand]
            /\ possible_cluster_info' = [possible_cluster_info EXCEPT ![p] = ret]
            /\ pc' = [pc EXCEPT ![p] = "created"]

\* lines 422-426 and 576: the end of a round of get_clusters, given the
\* contexts and the answers that the round ends with
EndOfRound(p, fl, infos) ==
    LET cand == {c \in candidates[p] : fl[p][c] < MaxClusterFails}
        ret == RankClusters(infos)
    IN IF cand # {} /\ infos = <<>>
       THEN /\ candidates' = [candidates EXCEPT ![p] = cand]
            /\ possible_cluster_info' = [possible_cluster_info EXCEPT ![p] = <<>>]
            /\ pc' = [pc EXCEPT ![p] = "get_clusters"]
       ELSE IF ret = <<>>
       THEN \* nothing to iterate over: while True calls get_clusters again
            /\ candidates' = [candidates EXCEPT ![p] = enabled[p]]
            /\ possible_cluster_info' = [possible_cluster_info EXCEPT ![p] = <<>>]
            /\ pc' = [pc EXCEPT ![p] = "get_clusters"]
       ELSE /\ candidates' = [candidates EXCEPT ![p] = cand]
            /\ possible_cluster_info' = [possible_cluster_info EXCEPT ![p] = ret]
            /\ pc' = [pc EXCEPT ![p] = "launch"]

\* one iteration of the for loop in which a cluster whose load query raised
\* is put in the ranking all the same, as fully loaded
QueryCluster_FailedRanked(p) ==
    /\ pc[p] = "for_clusters"
    /\ sleep_left[p] = 0
    /\ LET c == Head(todo[p])
           last == Tail(todo[p]) = <<>>
       IN /\ todo' = [todo EXCEPT ![p] = Tail(@)]
          /\ \/ /\ in_retry_wait(p, c) \/ failed(p, c)
                /\ UNCHANGED <<ctxvars, last_call>>
                /\ IF last THEN EndOfRound(p, fails, possible_cluster_info[p])
                   ELSE UNCHANGED <<candidates, possible_cluster_info, pc>>
             \/ /\ ~in_retry_wait(p, c) /\ ~failed(p, c)
                /\ last_call' = [last_call EXCEPT ![p] = Call("list_builds", p, c, EmptyDict)]
                /\ \E n \in 0..MaxActiveBuilds :
                     LET infos == Append(possible_cluster_info[p],
                                         [cluster |-> c, active |-> n])
                     IN IF last THEN EndOfRound(p, fails, infos)
                        ELSE /\ possible_cluster_info' =
                                    [possible_cluster_info EXCEPT ![p] = infos]
                             /\ UNCHANGED <<candidates, pc>>
                /\ UNCHANGED ctxvars
             \/ /\ ~in_retry_wait(p, c) /\ ~failed(p, c)
                /\ last_call' = [last_call EXCEPT ![p] = Call("list_builds", p, c, EmptyDict)]
                /\ LET ctx == try_again_later(p, c, FindClusterRetryDelay)
                       infos == Append(possible_cluster_info[p],
                                       [cluster |-> c, active |-> MaxActiveBuilds])
                   IN /\ fails' = ctx.fails
                      /\ retry_in' = ctx.retry_in
                      /\ IF last
                         THEN EndOfRound(p, ctx.fails, infos)
                         ELSE /\ possible_cluster_info' =
                                    [possible_cluster_info EXCEPT ![p] = infos]
                              /\ UNCHANGED <<candidates, pc>>
    /\ UNCHANGED <<cfgvars, kwvars, sleep_left, bivars, remote, cancel_calls, own_cancels,
                   supvars>>

\* one iteration of get_clusters' for loop (lines 411-421): the cluster is
\* skipped, or its load is asked for and it answers or raises OsbsException
QueryCluster(p) ==
    /\ pc[p] = "for_clusters"
    /\ sleep_left[p] = 0
    /\ LET c == Head(todo[p])
           last == Tail(todo[p]) = <<>>
       IN /\ todo' = [todo EXCEPT ![p] = Tail(@)]
          /\ \/ /\ in_retry_wait(p, c) \/ failed(p, c)
                /\ UNCHANGED <<ctxvars, last_call>>
                /\ IF last THEN EndOfRound(p, fails, possible_cluster_info[p])
                   ELSE UNCHANGED <<candidates, possible_cluster_info, pc>>
             \/ /\ ~in_retry_wait(p, c) /\ ~failed(p, c)
                /\ last_call' = [last_call EXCEPT ![p] = Call("list_builds", p, c, EmptyDict)]
                /\ \E n \in 0..MaxActiveBuilds :
                     LET infos == Append(possible_cluster_info[p],
                                         [cluster |-> c, active |-> n])
                     IN IF last THEN EndOfRound(p, fails, infos)
                        ELSE /\ possible_cluster_info' =
                                    [possible_cluster_info EXCEPT ![p] = infos]
                             /\ UNCHANGED <<candidates, pc>>
                /\ UNCHANGED ctxvars
             \/ /\ ~in_retry_wait(p, c) /\ ~failed(p, c)
                /\ last_call' = [last_call EXCEPT ![p] = Call("list_builds", p, c, EmptyDict)]
                /\ LET ctx == try_again_later(p, c, FindClusterRetryDelay)
                   IN /\ fails' = ctx.fails
                      /\ retry_in' = ctx.retry_in
                      /\ IF last
                         THEN EndOfRound(p, ctx.fails, possible_cluster_info[p])
                         ELSE UNCHANGED <<candidates, possible_cluster_info, pc>>
    /\ UNCHANGED <<cfgvars, kwvars, sleep_left, bivars, remote, cancel_calls, own_cancels,
                   supvars>>

\* ------------------------------------------------------------ do_worker_build
\* a launch after whose rejection the clusters are ranked anew, whatever
\* is left of the ranking
Launch_RejectedReranks(p) ==
    /\ pc[p] = "launch"
    /\ LET ci == Head(possible_cluster_info[p])
           c == ci.cluster
           base == get_worker_build_kwargs(build_kwargs, Release, p, koji_upload_dir,
                                           fs_task_id, reactor_config, c)
           kw == WorkerKwargs(base.kwargs, override_kwargs, p)
       IN /\ build_kwargs' = base.self_build_kwargs
          /\ override_kwargs' = kw.override_kwargs
          /\ last_call' = [last_call EXCEPT ![p] =
                              Call("create_worker_build", p, c, kw.kwargs)]
          /\ \/ /\ remote' = [remote EXCEPT ![p] = "Running"]
                /\ pc' = [pc EXCEPT ![p] = "created"]
                /\ UNCHANGED <<ctxvars, candidates, possible_cluster_info, bivars, todo, sleep_left>>
             \/ /\ LET ctx == try_again_later(p, c, FailureRetryDelay)
                   IN fails' = ctx.fails /\ retry_in' = ctx.retry_in
                /\ possible_cluster_info' = [possible_cluster_info EXCEPT ![p] = <<>>]
                /\ pc' = [pc EXCEPT ![p] = "get_clusters"]
                /\ candidates' = [candidates EXCEPT ![p] = enabled[p]]
                /\ UNCHANGED <<remote, bivars, todo, sleep_left>>
             \/ /\ AppendBuildInfo(p, NoBuild, c, "None")
                /\ Return(p)
                /\ UNCHANGED <<remote>>
    /\ UNCHANGED <<cfgvars, cancel_calls, own_cancels, supvars>>

\* a launch after which the build is monitored whether there is one or not
Launch_MonitorsNoBuild(p) ==
    /\ pc[p] = "launch"
    /\ LET ci == Head(possible_cluster_info[p])
           c == ci.cluster
           base == get_worker_build_kwargs(build_kwargs, Release, p, koji_upload_dir,
                                           fs_task_id, reactor_config, c)
           kw == WorkerKwargs(base.kwargs, override_kwargs, p)
       IN /\ build_kwargs' = base.self_build_kwargs
          /\ override_kwargs' = kw.override_kwargs
          /\ last_call' = [last_call EXCEPT ![p] =
                              Call("create_worker_build", p, c, kw.kwargs)]
          /\ \/ /\ remote' = [remote EXCEPT ![p] = "Running"]
                /\ pc' = [pc EXCEPT ![p] = "created"]
                /\ UNCHANGED <<ctxvars, candidates, possible_cluster_info, bivars, todo, sleep_left>>
             \/ /\ LET ctx == try_again_later(p, c, FailureRetryDelay)
                   IN fails' = ctx.fails /\ retry_in' = ctx.retry_in
                /\ possible_cluster_info' = [possible_cluster_info EXCEPT ![p] = Tail(@)]
                /\ IF Tail(possible_cluster_info[p]) = <<>>
                   THEN /\ pc' = [pc EXCEPT ![p] = "get_clusters"]
                        /\ candidates' = [candidates EXCEPT ![p] = enabled[p]]
                   ELSE UNCHANGED <<pc, candidates>>
                /\ UNCHANGED <<remote, bivars, todo, sleep_left>>
             \/ /\ AppendBuildInfo(p, NoBuild, c, "None")
                /\ pc' = [pc EXCEPT ![p] = "watch_logs"]
                /\ UNCHANGED <<remote, ctxvars, selvars>>
    /\ UNCHANGED <<cfgvars, cancel_calls, own_cancels, supvars>>

\* lines 498-526: the kwargs are built and create_worker_build is called on
\* the first cluster of the ranking; it returns a build, raises OsbsException
\* (the caller records a failure and goes on, lines 583-584) or raises
\* something else (a WorkerBuildInfo without build is recorded)
Launch(p) ==
    /\ pc[p] = "launch"
    /\ LET ci == Head(possible_cluster_info[p])
           c == ci.cluster
           base == get_worker_build_kwargs(build_kwargs, Release, p, koji_upload_dir,
                                           fs_task_id, reactor_config, c)
           kw == WorkerKwargs(base.kwargs, override_kwargs, p)
       IN /\ build_kwargs' = base.self_build_kwargs
          /\ override_kwargs' = kw.override_kwargs
          /\ last_call' = [last_call EXCEPT ![p] =
                              Call("create_worker_build", p, c, kw.kwargs)]
          /\ \/ /\ remote' = [remote EXCEPT ![p] = "Running"]
                /\ pc' = [pc EXCEPT ![p] = "created"]
                /\ UNCHANGED <<ctxvars, candidates, possible_cluster_info, bivars, todo, sleep_left>>
             \/ /\ LET ctx == try_again_later(p, c, FailureRetryDelay)
                   IN fails' = ctx.fails /\ retry_in' = ctx.retry_in
                /\ possible_cluster_info' = [possible_cluster_info EXCEPT ![p] = Tail(@)]
                /\ IF Tail(possible_cluster_info[p]) = <<>>
                   THEN /\ pc' = [pc EXCEPT ![p] = "get_clusters"]
                        /\ candidates' = [candidates EXCEPT ![p] = enabled[p]]
                   ELSE UNCHANGED <<pc, candidates>>
                /\ UNCHANGED <<remote, bivars, todo, sleep_left>>
             \/ /\ AppendBuildInfo(p, NoBuild, c, "None")
                /\ Return(p)
                /\ UNCHANGED <<remote>>
    /\ UNCHANGED <<cfgvars, cancel_calls, own_cancels, supvars>>

\* the build is recorded and the task goes on to the next launch
Created_Relaunch(p) ==
    /\ pc[p] = "created"
    /\ AppendBuildInfo(p, "Running", Head(possible_cluster_info[p]).cluster, "None")
    /\ pc' = [pc EXCEPT ![p] = "launch"]
    /\ UNCHANGED <<cfgvars, kwvars, ctxvars, selvars, remvars, supvars>>

\* lines 527-530: the build that create_worker_build returned is recorded
Created(p) ==
    /\ pc[p] = "created"
    /\ AppendBuildInfo(p, "Running", Head(possible_cluster_info[p]).cluster, "None")
    /\ pc' = [pc EXCEPT ![p] = "watch_logs"]
    /\ UNCHANGED <<cfgvars, kwvars, ctxvars, selvars, remvars, supvars>>

\* an exception of watch_logs is taken like the OsbsException of a launch:
\* a failure of the cluster is recorded and the next cluster is tried
WatchLogs_OsbsRetries(p) ==
    /\ pc[p] = "watch_logs"
    /\ \/ /\ pc' = [pc EXCEPT ![p] = "wait_to_finish"]
          /\ UNCHANGED <<monitor_exception, ctxvars, selvars>>
       \/ /\ LET ctx == try_again_later(p, bi_cluster[p], FailureRetryDelay)
             IN fails' = ctx.fails /\ retry_in' = ctx.retry_in
          /\ possible_cluster_info' = [possible_cluster_info EXCEPT ![p] = Tail(@)]
          /\ IF Tail(possible_cluster_info[p]) = <<>>
             THEN /\ pc' = [pc EXCEPT ![p] = "get_clusters"]
                  /\ candidates' = [candidates EXCEPT ![p] = enabled[p]]
             ELSE /\ pc' = [pc EXCEPT ![p] = "launch"]
                  /\ UNCHANGED candidates
          /\ UNCHANGED <<monitor_exception, todo, sleep_left>>
    /\ UNCHANGED <<cfgvars, kwvars, build, bi_cluster, worker_builds, remvars, supvars>>

\* watch_logs streams beside wait_to_finish: the end of the build can be
\* seen while the logs are still followed
WatchLogs_Concurrent(p) ==
    /\ pc[p] = "watch_logs"
    /\ \/ /\ pc' = [pc EXCEPT ![p] = "wait_to_finish"]
          /\ UNCHANGED <<monitor_exception, build, ctxvars, selvars>>
       \/ /\ pc' = [pc EXCEPT ![p] = "cancel_build"]
          /\ monitor_exception' = [monitor_exception EXCEPT ![p] = "logs failed"]
          /\ UNCHANGED <<build, ctxvars, selvars>>
       \/ /\ is_finished(remote[p])
          /\ build' = [build EXCEPT ![p] = remote[p]]
          /\ Return(p)
          /\ UNCHANGED monitor_exception
    /\ UNCHANGED <<cfgvars, kwvars, bi_cluster, worker_builds, remvars, supvars>>

\* line 534: build_info.watch_logs() returns or raises
WatchLogs(p) ==
    /\ pc[p] = "watch_logs"
    /\ \/ /\ pc' = [pc EXCEPT ![p] = "wait_to_finish"]
          /\ UNCHANGED monitor_exception
       \/ /\ pc' = [pc EXCEPT ![p] = "cancel_build"]
          /\ monitor_exception' = [monitor_exception EXCEPT ![p] = "logs failed"]
    /\ UNCHANGED <<cfgvars, kwvars, ctxvars, selvars, build, bi_cluster, worker_builds,
                   remvars, supvars>>

\* line 535: build_info.wait_to_finish() returns the finished build or raises
WaitToFinish(p) ==
    /\ pc[p] = "wait_to_finish"
    /\ \/ /\ is_finished(remote[p])
          /\ build' = [build EXCEPT ![p] = remote[p]]
          /\ Return(p)
          /\ UNCHANGED monitor_exception
       \/ /\ pc' = [pc EXCEPT ![p] = "cancel_build"]
          /\ monitor_exception' = [monitor_exception EXCEPT ![p] = "wait failed"]
          /\ UNCHANGED <<build, ctxvars, selvars>>
    /\ UNCHANGED <<cfgvars, kwvars, bi_cluster, worker_builds,
                   remvars, supvars>>

\* the cluster is asked for every record that has a build
cancel_build_asks_AnyBuild(p) == build[p] # NoBuild

\* the test of is_finished the other way round
cancel_build_asks_Inverted(p) == build[p] # NoBuild /\ is_finished(build[p])

\* WorkerBuildInfo.cancel_build: whether it asks the cluster to cancel
cancel_build_asks(p) == build[p] # NoBuild /\ ~is_finished(build[p])

\* osbs.cancel_build on the cluster: a running build is cancelled unless the
\* request fails
CancelRequest(p, ok) ==
    /\ cancel_calls' = [cancel_calls EXCEPT ![p] = @ + 1]
    /\ remote' = [remote EXCEPT ![p] = IF ok /\ @ = "Running" THEN "Cancelled" ELSE @]

\* lines 536-546: after a monitoring error the task cancels its build; an
\* OsbsException of the request is passed over
CancelBuild(p) ==
    /\ pc[p] = "cancel_build"
    /\ IF cancel_build_asks(p)
       THEN /\ \E ok \in BOOLEAN : CancelRequest(p, ok)
            /\ own_cancels' = [own_cancels EXCEPT ![p] = @ + 1]
       ELSE UNCHANGED <<remote, cancel_calls, own_cancels>>
    /\ Return(p)
    /\ UNCHANGED <<cfgvars, kwvars, bivars, last_call, supvars>>

\* ------------------------------------------------------------- environment
\* the build ends on its cluster
RemoteFinish(p) ==
    /\ remote[p] = "Running"
    /\ \E s \in {"Complete", "Failed"} : remote' = [remote EXCEPT ![p] = s]
    /\ UNCHANGED <<cfgvars, kwvars, pc, ctxvars, selvars, bivars, last_call,
                   cancel_calls, own_cancels, supvars>>

\* time passes: every retry_at and every sleep comes one tick closer
Tick ==
    /\ \E p \in platforms :
          /\ ~Finished(p)
          /\ sleep_left[p] > 0 \/ \E c \in enabled[p] : retry_in[p][c] > 0
    /\ retry_in' = [p \in AllPlatforms |-> [c \in ClusterNames |->
                        IF retry_in[p][c] > 0 THEN retry_in[p][c] - 1 ELSE 0]]
    /\ sleep_left' = [p \in AllPlatforms |->
                        IF sleep_left[p] > 0 THEN sleep_left[p] - 1 ELSE 0]
    /\ UNCHANGED <<cfgvars, kwvars, pc, fails, candidates, todo, possible_cluster_info,
                   bivars, remvars, supvars>>

\* ---------------------------------------------------------- get_fail_reason
\* what the cluster tells about a failed build: the 'errors' of its
\* plugins-metadata annotation (or none), and the pod's failure reason (or
\* the exception of asking for it)
FailInputs == [errors : {Absent, "plugin failed"},
               pod : {"OsbsException", "AttributeError", "reason message"}]

\* only the OsbsException of the pod lookup is caught
CaughtPodErrors_OsbsOnly == {"OsbsException"}

\* line 202: the exceptions of the pod lookup that get_fail_reason catches
CaughtPodErrors == {"OsbsException", "AttributeError"}

\* WorkerBuildInfo.get_fail_reason: whether an exception leaves it
get_fail_reason_raises(b, exc, inp) ==
    /\ b # NoBuild
    /\ inp.errors = Absent
    /\ inp.pod \in {"OsbsException", "AttributeError"} \ CaughtPodErrors

\* WorkerBuildInfo.get_fail_reason
get_fail_reason(b, exc, inp) ==
    LET r0 == IF exc # "None" THEN [k \in {"general"} |-> exc]
              ELSE IF b = NoBuild THEN [k \in {"general"} |-> "build not started"]
              ELSE EmptyDict
        r1 == IF exc # "None" THEN Update(r0, [k \in {"general"} |-> exc]) ELSE r0
    IN IF b = NoBuild THEN r0
       ELSE IF inp.errors # Absent
       THEN Update(r1, [k \in {"some_plugin"} |-> inp.errors])
       ELSE IF inp.pod \notin {"OsbsException", "AttributeError"}
       THEN Update(r1, [k \in {"pod"} |-> inp.pod])
       ELSE r1

\* ----------------------------------------------------------------------- run
\* the platforms of the entries of worker_builds
Recorded == {worker_builds[i] : i \in DOMAIN worker_builds}

\* one task per platform, whatever the platforms are
Run_NoPlatformCheck ==
    /\ sup = "init"
    /\ sup' = "get"
    /\ pc' = [p \in AllPlatforms |-> IF p \in platforms THEN "start" ELSE "idle"]
    /\ UNCHANGED <<cfgvars, kwvars, ctxvars, selvars, bivars, remvars, cancel_todo,
                   live_at_cancel, trigger, result_ready, raised, fail_reasons, workspace>>

\* lines 612-616: no platform is an error, else one task per platform
Run ==
    /\ sup = "init"
    /\ IF platforms = {}
       THEN /\ sup' = "raised"
            /\ raised' = "RuntimeError"
            /\ UNCHANGED pc
       ELSE /\ sup' = "get"
            /\ pc' = [p \in AllPlatforms |-> IF p \in platforms THEN "start" ELSE "idle"]
            /\ UNCHANGED raised
    /\ UNCHANGED <<cfgvars, kwvars, ctxvars, selvars, bivars, remvars, cancel_todo,
                   live_at_cancel, trigger, result_ready, fail_reasons, workspace>>

\* lines 622-627: result.get() raised e; the pool is terminated (its threads
\* go on with the task they run, but a result that comes after terminate() is
\* dropped: the AsyncResult is ready only if every task had ended before) and
\* a pool is set to cancel worker_builds
Interrupted(e) ==
    /\ raised' = e
    /\ trigger' = e
    /\ result_ready' = AllFinished
    /\ live_at_cancel' = {p \in Recorded : remote[p] = "Running"}
    /\ cancel_todo' = DOMAIN worker_builds
    /\ sup' = IF worker_builds = <<>> THEN "wait_ready" ELSE "cancelling"
    /\ UNCHANGED <<cfgvars, kwvars, pc, ctxvars, selvars, bivars, remvars,
                   fail_reasons, workspace>>

\* the orchestrator build is cancelled while run() waits in result.get()
BuildCanceled ==
    /\ sup = "get"
    /\ Interrupted("BuildCanceledException")

\* result.get() raises on the first failure, while other tasks still run
ResultGetRaises_FirstFailure ==
    /\ sup = "get"
    /\ \E p \in platforms : pc[p] = "raised"
    /\ Interrupted("UnknownPlatformException")

\* result.get() raises the exception of a task, once every task has ended
\* (a MapResult is ready when all its jobs are done)
ResultGetRaises ==
    /\ sup = "get"
    /\ AllFinished
    /\ \E p \in platforms : pc[p] = "raised"
    /\ Interrupted("UnknownPlatformException")

\* line 627: one bi.cancel_build() of the cancelling pool; map() raises the
\* OsbsException of a request once every entry has been visited, and the
\* exception leaves run() from inside the except block
CancelWorkerBuild(i) ==
    /\ sup = "cancelling"
    /\ i \in cancel_todo
    /\ cancel_todo' = cancel_todo \ {i}
    /\ \E ok \in BOOLEAN :
          /\ IF cancel_build_asks(worker_builds[i])
             THEN CancelRequest(worker_builds[i], ok)
             ELSE ok /\ UNCHANGED <<remote, cancel_calls>>
          /\ raised' = IF ok THEN raised ELSE "OsbsException"
          /\ sup' = IF cancel_todo' # {} THEN "cancelling"
                    ELSE IF raised' = "OsbsException" THEN "raised"
                    ELSE "wait_ready"
    /\ UNCHANGED <<cfgvars, kwvars, pc, ctxvars, selvars, bivars, last_call,
                   own_cancels, live_at_cancel, trigger, result_ready, fail_reasons,
                   workspace>>

\* lines 628-630: once result.ready(), the exception is raised again; run()
\* stays in the loop for as long as the result is not ready
Reraise ==
    /\ sup = "wait_ready"
    /\ result_ready
    /\ sup' = "raised"
    /\ UNCHANGED <<cfgvars, kwvars, pc, ctxvars, selvars, bivars, remvars, cancel_todo,
                   live_at_cancel, trigger, result_ready, raised, fail_reasons, workspace>>

\* only the records without a build count as failures
FailReasons_OnlyMissing(inp) ==
    [p \in {q \in Recorded : build[q] = NoBuild} |->
        get_fail_reason(build[p], monitor_exception[p], inp[p])]

\* lines 635-639
FailReasons(inp) ==
    [p \in {q \in Recorded : build[q] = NoBuild \/ ~is_succeeded(build[q])} |->
        get_fail_reason(build[p], monitor_exception[p], inp[p])]

\* failures are fatal only when no platform has succeeded
Aggregate_ZeroSuccessFatal ==
    /\ sup = "get"
    /\ AllFinished
    /\ \A p \in platforms : pc[p] = "done"
    /\ \E inp \in [AllPlatforms -> FailInputs] :
          /\ fail_reasons' = FailReasons(inp)
          /\ workspace' = [koji_upload_dir |-> koji_upload_dir,
                           build_info |-> [p \in Recorded |->
                               [build |-> build[p], cluster |-> bi_cluster[p],
                                monitor_exception |-> monitor_exception[p]]]]
          /\ IF DOMAIN fail_reasons' = platforms
             THEN sup' = "raised" /\ raised' = "PluginFailedException"
             ELSE sup' = "returned" /\ UNCHANGED raised
    /\ UNCHANGED <<cfgvars, kwvars, pc, ctxvars, selvars, bivars, remvars, cancel_todo,
                   live_at_cancel, trigger, result_ready>>

\* PluginFailedException is raised before the workspace is filled in
Aggregate_RaiseBeforeWrite ==
    /\ sup = "get"
    /\ AllFinished
    /\ \A p \in platforms : pc[p] = "done"
    /\ \E inp \in [AllPlatforms -> FailInputs] :
          /\ fail_reasons' = FailReasons(inp)
          /\ IF DOMAIN fail_reasons' # {}
             THEN sup' = "raised" /\ raised' = "PluginFailedException"
                  /\ UNCHANGED workspace
             ELSE /\ sup' = "returned" /\ UNCHANGED raised
                  /\ workspace' = [koji_upload_dir |-> koji_upload_dir,
                                   build_info |-> [p \in Recorded |->
                                       [build |-> build[p], cluster |-> bi_cluster[p],
                                        monitor_exception |-> monitor_exception[p]]]]
    /\ UNCHANGED <<cfgvars, kwvars, pc, ctxvars, selvars, bivars, remvars, cancel_todo,
                   live_at_cancel, trigger, result_ready>>

\* lines 631-647: every task returned; the failures are collected, the
\* workspace is filled in and PluginFailedException is raised on any failure
Aggregate ==
    /\ sup = "get"
    /\ AllFinished
    /\ \A p \in platforms : pc[p] = "done"
    /\ \E inp \in [AllPlatforms -> FailInputs] :
          IF \E p \in DOMAIN FailReasons(inp) :
                get_fail_reason_raises(build[p], monitor_exception[p], inp[p])
          THEN \* an exception of get_fail_reason leaves run()
               /\ sup' = "raised"
               /\ raised' = "AttributeError"
               /\ UNCHANGED <<fail_reasons, workspace>>
          ELSE /\ fail_reasons' = FailReasons(inp)
               /\ workspace' = [koji_upload_dir |-> koji_upload_dir,
                                build_info |-> [p \in Recorded |->
                                    [build |-> build[p], cluster |-> bi_cluster[p],
                                     monitor_exception |-> monitor_exception[p]]]]
               /\ IF DOMAIN fail_reasons' # {}
                  THEN sup' = "raised" /\ raised' = "PluginFailedException"
                  ELSE sup' = "returned" /\ UNCHANGED raised
    /\ UNCHANGED <<cfgvars, kwvars, pc, ctxvars, selvars, bivars, remvars, cancel_todo,
                   live_at_cancel, trigger, result_ready>>

\* --------------------------------------------------------------------- Next
Task(p) ==
    \/ SelectAndStartCluster(p)
    \/ WaitForAnyCluster(p)
    \/ QueryCluster(p)
    \/ Launch(p)
    \/ Created(p)
    \/ WatchLogs(p)
    \/ WaitToFinish(p)
    \/ CancelBuild(p)

Supervisor ==
    \/ Run
    \/ BuildCanceled
    \/ ResultGetRaises
    \/ \E i \in cancel_todo : CancelWorkerBuild(i)
    \/ Reraise
    \/ Aggregate

Next ==
    \/ \E p \in AllPlatforms : Task(p)
    \/ \E p \in AllPlatforms : RemoteFinish(p)
    \/ Tick
    \/ Supervisor

Spec == Init /\ [][Next]_vars

SpecSelect == InitSelect /\ [][Next]_vars

SpecKwargs == InitKwargs /\ [][Next]_vars

\* a dispatch for one platform with two clusters of the same size, a before
\* b in priority (or with no cluster)
InitTwo ==
    \E e \in {{}, {"a", "b"}} :
        InitWith({"x86_64"}, [p \in AllPlatforms |-> IF p = "x86_64" THEN e ELSE {}],
                 [c \in ClusterNames |->
                     [priority |-> IF c = "b" THEN 1 ELSE 0, max_concurrent_builds |-> 1]],
                 [k \in {"user"} |-> "bacon"], EmptyDict, "None", "default")

\* every thread runs, time passes, every remote call returns or raises and
\* every build ends
SpecFair ==
    /\ InitTwo /\ [][Next]_vars
    /\ WF_vars(Tick)
    /\ WF_vars(Supervisor)
    /\ \A p \in AllPlatforms : WF_vars(Task(p)) /\ WF_vars(RemoteFinish(p))

\* the steps of a task other than the end of the log stream
TaskButLogs(p) ==
    \/ SelectAndStartCluster(p)
    \/ WaitForAnyCluster(p)
    \/ QueryCluster(p)
    \/ Launch(p)
    \/ Created(p)
    \/ WaitToFinish(p)
    \/ CancelBuild(p)

\* a dispatch for one platform with one cluster (or none)
InitOne ==
    \E e \in {{}, {"a"}} :
        InitWith({"x86_64"}, [p \in AllPlatforms |-> IF p = "x86_64" THEN e ELSE {}],
                 DefaultConf, [k \in {"user"} |-> "bacon"], EmptyDict, "None", "default")

\* every thread runs, time passes and every remote call returns or raises,
\* except that a log stream (get_build_logs with follow=True) may go on
\* for ever
SpecLogsMayHang ==
    /\ InitOne /\ [][Next]_vars
    /\ WF_vars(Tick)
    /\ WF_vars(Supervisor)
    /\ \A p \in AllPlatforms : WF_vars(TaskButLogs(p))

\* ------------------------------------------------------------------- claims
\* run() got to the end of the dispatch: it returned, or raised for failed builds
Published == sup = "returned" \/ (sup = "raised" /\ raised = "PluginFailedException")

Entries(p) == {i \in DOMAIN worker_builds : worker_builds[i] = p}

\* C1: worker_builds never holds two records of a platform nor one of a
\* platform that was not requested; a task that returned has left exactly one;
\* and when run() is not aborted, worker_builds and the published build_info
\* hold exactly one record for each requested platform.
C1_OneRecordPerPlatform ==
    /\ \A p \in AllPlatforms : Cardinality(Entries(p)) <= (IF p \in platforms THEN 1 ELSE 0)
    /\ \A p \in platforms : pc[p] = "done" => Cardinality(Entries(p)) = 1
    /\ Published =>
          /\ Len(worker_builds) = Cardinality(platforms)
          /\ \A p \in platforms : Cardinality(Entries(p)) = 1
          /\ DOMAIN workspace.build_info = platforms

\* two platforms, one built, the other out of clusters: both are recorded
C1_Witness ==
    /\ Published
    /\ platforms = AllPlatforms
    /\ build["x86_64"] = "Complete"
    /\ monitor_exception["ppc64le"] = AllClustersFailedMsg
    /\ Len(worker_builds) = 2

Load1Less(i1, i2) ==
    i1.active * cluster_conf[i2.cluster].max_concurrent_builds
        < i2.active * cluster_conf[i1.cluster].max_concurrent_builds

\* (load, priority) of i1 is at most that of i2, lexicographically
LexLeq(i1, i2) ==
    \/ Load1Less(i1, i2)
    \/ /\ ~Load1Less(i2, i1)
       /\ cluster_conf[i1.cluster].priority <= cluster_conf[i2.cluster].priority

\* a step of the task of p that calls create_worker_build
LaunchStep(p) ==
    /\ pc[p] = "launch"
    /\ pc'[p] # "launch" \/ possible_cluster_info'[p] # possible_cluster_info[p]

\* C2: the ranking that get_clusters returns is non-decreasing in (load,
\* priority), and every launch goes to a cluster that no cluster left in the
\* ranking precedes in that order: the first launch of a round goes to the
\* least loaded cluster that answered, the one of lowest priority among equals.
C2_LeastLoadedFirst ==
    /\ [](\A p \in platforms : pc[p] \in {"launch", "created"} =>
            \A i, j \in DOMAIN possible_cluster_info[p] :
                i < j => LexLeq(possible_cluster_info[p][i], possible_cluster_info[p][j]))
    /\ [][\A p \in platforms : LaunchStep(p) =>
            /\ last_call'[p].op = "create_worker_build"
            /\ \E k \in DOMAIN possible_cluster_info[p] :
                /\ possible_cluster_info[p][k].cluster = last_call'[p].cluster
                /\ \A i \in DOMAIN possible_cluster_info[p] :
                     LexLeq(possible_cluster_info[p][k], possible_cluster_info[p][i])]_vars

\* the build was created on the less loaded cluster, though its priority
\* value is the higher one
C2_Witness ==
    /\ pc["x86_64"] = "created"
    /\ Len(possible_cluster_info["x86_64"]) = 2
    /\ Load1Less(possible_cluster_info["x86_64"][1], possible_cluster_info["x86_64"][2])
    /\ cluster_conf[possible_cluster_info["x86_64"][1].cluster].priority
         > cluster_conf[possible_cluster_info["x86_64"][2].cluster].priority
    /\ last_call["x86_64"].cluster = possible_cluster_info["x86_64"][1].cluster

\* C3: no load query and no launch is made against a cluster that has
\* max_cluster_fails recorded failures, and while the task runs a cluster that
\* has them keeps them.
C3_DeadNeverContacted ==
    /\ [](\A p \in platforms : last_call[p].op # "none" =>
            last_call[p].fails < MaxClusterFails)
    /\ [][\A p \in platforms : \A c \in enabled[p] :
            (fails[p][c] >= MaxClusterFails /\ pc'[p] # "done") =>
                fails'[p][c] >= MaxClusterFails]_vars

\* cluster a is dead and a later call went to cluster b
C3_Witness ==
    /\ fails["x86_64"]["a"] >= MaxClusterFails
    /\ last_call["x86_64"].cluster = "b"
    /\ last_call["x86_64"].op = "create_worker_build"
    /\ pc["x86_64"] = "watch_logs"

\* run() was interrupted and its cancelling pool has visited every record
CancelSettled ==
    /\ raised \in {"BuildCanceledException", "UnknownPlatformException", "OsbsException"}
    /\ sup \in {"wait_ready", "raised"}
    /\ cancel_todo = {}

\* C4: once a cancelled dispatch has cancelled its worker builds, the cluster
\* was asked exactly once to cancel each recorded build that was live when
\* result.get() raised, and never for a platform that has no build.
C4_CancelExactlyOnce ==
    CancelSettled =>
        \A p \in platforms :
            /\ p \in live_at_cancel => cancel_calls[p] = 1
            /\ remote[p] = NoBuild => cancel_calls[p] = 0

\* the task of p gives up: every cluster of p has failed too often
GivesUp(p) ==
    /\ pc[p] = "get_clusters"
    /\ enabled[p] # {}
    /\ \A c \in enabled[p] : failed(p, c)
    /\ pc'[p] # pc[p]

\* C5: a task raises only when its platform has no cluster at all; when every
\* cluster of a platform has reached max_cluster_fails its task returns with a
\* record that has no build and whose failure reason 'general' is the message
\* of AllClustersFailedException, that step changes nothing of run() or of the
\* other tasks and their builds, and the reason is the one the run reports.
C5_ExhaustedClustersPlaceholder ==
    /\ [](\A p \in platforms : pc[p] = "raised" => enabled[p] = {})
    /\ [](\A p \in platforms :
            (Published /\ monitor_exception[p] = AllClustersFailedMsg) =>
                /\ p \in DOMAIN fail_reasons
                /\ fail_reasons[p]["general"] = AllClustersFailedMsg)
    /\ [][\A p \in platforms : GivesUp(p) =>
            /\ pc'[p] = "done"
            /\ build'[p] = NoBuild
            /\ Cardinality({i \in DOMAIN worker_builds' : worker_builds'[i] = p}) = 1
            /\ \A inp \in FailInputs :
                 get_fail_reason(build'[p], monitor_exception'[p], inp)["general"]
                     = AllClustersFailedMsg
            /\ sup' = sup /\ raised' = raised
            /\ cancel_calls' = cancel_calls /\ remote' = remote
            /\ \A q \in platforms \ {p} :
                 pc'[q] = pc[q] /\ build'[q] = build[q]]_vars

\* ppc64le ran out of clusters while the build of x86_64 was launched,
\* monitored to its end and recorded, and nobody asked to cancel it
C5_Witness ==
    /\ sup = "raised" /\ raised = "PluginFailedException"
    /\ build["ppc64le"] = NoBuild
    /\ DOMAIN fail_reasons = {"ppc64le"}
    /\ fail_reasons["ppc64le"]["general"] = AllClustersFailedMsg
    /\ build["x86_64"] = "Complete"
    /\ "x86_64" \in Recorded
    /\ cancel_calls["x86_64"] = 0

\* the build of p was created and watching its logs or waiting for it raised
MonitorFailed(p) == build[p] # NoBuild /\ monitor_exception[p] # "None"

OverridesFor(key) ==
    IF key \in DOMAIN override_kwargs THEN override_kwargs[key] ELSE EmptyDict

\* C7: the kwargs of every create_worker_build call are, key by key, the
\* platform's override if there is one, else the override for all platforms
\* if there is one, else the value that get_worker_build_kwargs gives; and no
\* step changes override_kwargs or build_kwargs.
C7_OverridePrecedence ==
    /\ [](\A p \in platforms : last_call[p].op = "create_worker_build" =>
            LET kw == last_call[p].kwargs
                base == get_worker_build_kwargs(build_kwargs, Release, p, koji_upload_dir,
                            fs_task_id, reactor_config, last_call[p].cluster).kwargs
            IN /\ DOMAIN kw = DOMAIN base \cup DOMAIN OverridesFor(NoneKey)
                                  \cup DOMAIN OverridesFor(p)
               /\ \A k \in DOMAIN kw :
                    kw[k] = IF k \in DOMAIN OverridesFor(p) THEN OverridesFor(p)[k]
                            ELSE IF k \in DOMAIN OverridesFor(NoneKey)
                            THEN OverridesFor(NoneKey)[k]
                            ELSE base[k])
    /\ [][override_kwargs' = override_kwargs /\ build_kwargs' = build_kwargs]_vars

\* a launch that was tried again, with overrides of 'release' for all
\* platforms and for x86_64 that differ: the platform's value was sent
C7_Witness ==
    /\ last_call["x86_64"].op = "create_worker_build"
    /\ last_call["x86_64"].fails > 0
    /\ DOMAIN override_kwargs = {NoneKey, "x86_64"}
    /\ override_kwargs[NoneKey]["release"] # override_kwargs["x86_64"]["release"]
    /\ last_call["x86_64"].kwargs["release"] = override_kwargs["x86_64"]["release"]
    /\ "architecture" \in DOMAIN build_kwargs

\* C8: every create_worker_build call of a dispatch, for any platform and any
\* attempt, carries the plugin's koji_upload_dir, which never changes and is
\* the value put in the workspace.
C8_SharedUploadDir ==
    /\ [](\A p \in platforms : last_call[p].op = "create_worker_build" =>
            last_call[p].kwargs["koji_upload_dir"] = koji_upload_dir)
    /\ [](Published => workspace.koji_upload_dir = koji_upload_dir)
    /\ [][koji_upload_dir' = koji_upload_dir]_vars

\* both platforms were launched, x86_64 on a second attempt, and the
\* workspace holds the directory that both were given
C8_Witness ==
    /\ Published
    /\ \A p \in AllPlatforms : last_call[p].op = "create_worker_build"
    /\ last_call["x86_64"].fails > 0
    /\ last_call["x86_64"].kwargs["koji_upload_dir"]
         = last_call["ppc64le"].kwargs["koji_upload_dir"]
    /\ workspace.koji_upload_dir = last_call["ppc64le"].kwargs["koji_upload_dir"]

\* the task of p has ended with a record that counts as a failure
BuildFailed(p) ==
    /\ pc[p] = "done"
    /\ p \in Recorded
    /\ build[p] = NoBuild \/ build[p] # "Complete"

RunEnded == sup \in {"returned", "raised"}

\* the exceptions that leave run() through its except block
Interruptions == {"BuildCanceledException", "UnknownPlatformException", "OsbsException"}

C10_FailReasonsExact ==
    Published =>
        /\ AllFinished
        /\ DOMAIN fail_reasons =
              {p \in platforms : build[p] = NoBuild \/ build[p] # "Complete"}
        /\ sup = "returned" <=> DOMAIN fail_reasons = {}
        /\ sup = "raised" <=> raised = "PluginFailedException"
        /\ \A p \in DOMAIN fail_reasons :
              /\ \E inp \in FailInputs :
                    fail_reasons[p] = get_fail_reason(build[p], monitor_exception[p], inp)
              /\ monitor_exception[p] # "None" =>
                    fail_reasons[p]["general"] = monitor_exception[p]

\* two platforms failed for different reasons, each reported under its key
C10_Witness ==
    /\ sup = "raised" /\ raised = "PluginFailedException"
    /\ DOMAIN fail_reasons = AllPlatforms
    /\ fail_reasons["x86_64"]["general"] = "logs failed"
    /\ "pod" \in DOMAIN fail_reasons["x86_64"]
    /\ fail_reasons["ppc64le"] = [k \in {"general"} |-> "build not started"]

\* the worker build of p has succeeded
Succeeded(p) == pc[p] = "done" /\ build[p] = "Complete"

\* C11 as stated: a run that ends without a fault of the orchestration and
\* with at least one succeeded platform has returned.
C11_ReturnsWhenSomeSucceed ==
    (RunEnded /\ trigger = "None" /\ \E p \in platforms : Succeeded(p)) =>
        sup = "returned"

\* C11, amended: run() returns exactly when result.get() did not raise and
\* every requested platform has succeeded; one failed platform makes it raise
\* PluginFailedException, whatever the other platforms did; and it raises
\* nothing but PluginFailedException, the exception of result.get(), the
\* OsbsException of a cancel request or the RuntimeError for no platform.
C11_RaisesUnlessAllSucceed ==
    /\ sup = "returned" =>
          (trigger = "None" /\ platforms # {} /\ \A p \in platforms : Succeeded(p))
    /\ (RunEnded /\ trigger = "None" /\ platforms # {}) =>
          (sup = "returned" <=> \A p \in platforms : Succeeded(p))
    /\ (RunEnded /\ trigger = "None" /\ \E p \in platforms : BuildFailed(p)) =>
          (sup = "raised" /\ raised = "PluginFailedException")
    /\ sup = "raised" =>
          raised = (IF platforms = {} THEN "RuntimeError"
                    ELSE IF trigger = "None" THEN "PluginFailedException"
                    ELSE IF raised = "OsbsException" THEN "OsbsException"
                    ELSE trigger)

\* x86_64 succeeded, waiting for the build of ppc64le raised: run() raised
\* PluginFailedException
C11_Witness ==
    /\ sup = "raised" /\ raised = "PluginFailedException"
    /\ Succeeded("x86_64")
    /\ pc["ppc64le"] = "done"
    /\ monitor_exception["ppc64le"] = "wait failed"

\* a task has raised UnknownPlatformException and result.get() has raised it
ConfigFault == trigger = "UnknownPlatformException"

\* the requested platforms that have clusters
Configured == {q \in platforms : enabled[q] # {}}

\* C12 as stated: after the configuration error of one platform the tasks
\* of the other platforms have run to their end and are recorded, and run()
\* asks for none of their builds that is live to be cancelled.
C12_ConfigErrorSparesSiblings ==
    ConfigFault =>
        \A q \in Configured :
            /\ pc[q] = "done" /\ q \in Recorded
            /\ q \in live_at_cancel => cancel_calls[q] = own_cancels[q]

\* C12, amended: result.get() raises the configuration error only when
\* every task has ended, so the other platforms' tasks are never stopped:
\* each has returned and is recorded, and a build that was monitored to its
\* end is never asked to be cancelled. run() then asks once more to cancel
\* the builds whose monitoring had failed, and only those.
C12_ConfigErrorAfterSiblingsEnd ==
    ConfigFault =>
        /\ AllFinished /\ result_ready
        /\ \A q \in Configured :
            /\ pc[q] = "done" /\ q \in Recorded
            /\ ~MonitorFailed(q) => cancel_calls[q] = 0
            /\ MonitorFailed(q) =>
                  cancel_calls[q] = own_cancels[q]
                      + (IF sup = "cancelling" /\ \E i \in cancel_todo : worker_builds[i] = q
                         THEN 0 ELSE 1)

\* ppc64le has no cluster; the build of x86_64 completed and was recorded
\* without any request to cancel it before run() raised
C12_Witness ==
    /\ ConfigFault /\ sup = "raised"
    /\ platforms = AllPlatforms
    /\ enabled["ppc64le"] = {}
    /\ build["x86_64"] = "Complete"
    /\ "x86_64" \in Recorded
    /\ cancel_calls["x86_64"] = 0

\* C13: a requested platform without clusters is never asked for its load,
\* never waited for and never launched on, its task raises, and a run that
\* ends without having been cancelled from outside has raised
\* UnknownPlatformException ('No clusters found for platform ...!').
C13_UnknownPlatformFails ==
    \A p \in platforms : enabled[p] = {} =>
        /\ pc[p] \in {"idle", "start", "raised"}
        /\ last_call[p] = NoCall
        /\ remote[p] = NoBuild /\ p \notin Recorded
        /\ sleep_left[p] = 0
        /\ \A c \in ClusterNames : fails[p][c] = 0 /\ retry_in[p][c] = 0
        /\ (RunEnded /\ trigger # "BuildCanceledException") =>
              (sup = "raised" /\ raised = "UnknownPlatformException")

\* where a task is once create_worker_build has returned a build
AfterLaunch == {"created", "watch_logs", "wait_to_finish", "cancel_build", "done"}

\* C14: a platform has a build on a cluster only once its task is past the
\* launch; create_worker_build is called only while the platform has no
\* build, so a build is never created beside or in place of another; and a
\* task that was returned a build never selects or launches again.
C14_OneBuildPerPlatform ==
    /\ [](\A p \in platforms : remote[p] # NoBuild <=> pc[p] \in AfterLaunch \ {"done"}
                                                      \/ (pc[p] = "done" /\ build[p] # NoBuild))
    /\ [][\A p \in platforms :
            /\ LaunchStep(p) => remote[p] = NoBuild
            /\ (remote[p] = NoBuild /\ remote'[p] # NoBuild) =>
                  (LaunchStep(p) /\ remote'[p] = "Running" /\ pc'[p] = "created")
            /\ remote[p] # NoBuild => remote'[p] # NoBuild
            /\ pc[p] \in AfterLaunch => pc'[p] \in AfterLaunch]_vars

\* the first launch was rejected; the second one returned the build that
\* the task now monitors
C14_Witness ==
    /\ pc["x86_64"] = "wait_to_finish"
    /\ remote["x86_64"] = "Running"
    /\ last_call["x86_64"].op = "create_worker_build"
    /\ last_call["x86_64"].fails = 1

\* result.get() has raised in run()
Faulted == trigger # "None"

\* C15: when run() ends a dispatch in which result.get() raised, every
\* record has been visited for cancellation, every task has stopped, and the
\* exception it raises is the one that result.get() raised; no request of
\* the cancelling pool is made before the task pool is terminated.
C15_CleanupThenReraise ==
    /\ \A p \in platforms : cancel_calls[p] > own_cancels[p] => Faulted
    /\ (sup = "raised" /\ Faulted) =>
          (cancel_todo = {} /\ AllFinished /\ raised = trigger)

\* C16: once run() has raised after result.get() raised, every build that
\* still runs on a cluster has been asked to be cancelled; and after
\* result.get() raised no task creates a build or appends a record.
C16_NoOrphanBuilds ==
    /\ []((sup = "raised" /\ Faulted) =>
            \A p \in platforms : remote[p] = "Running" => cancel_calls[p] >= 1)
    /\ [][\A p \in platforms : Faulted =>
            /\ ~(remote[p] = NoBuild /\ remote'[p] = "Running")
            /\ Len(worker_builds') = Len(worker_builds)]_vars

\* lines 523-528: the record of a launch that ended in an exception other
\* than OsbsException: it names the cluster and holds no build
LaunchError(p) == p \in Recorded /\ build[p] = NoBuild /\ bi_cluster[p] # "None"

\* the task of p leaves the launch with such a record
LaunchErrorStep(p) == pc[p] = "launch" /\ LaunchError(p)'

\* C17 as stated: the record of a launch that failed with an unexpected
\* error holds no build and holds the error as its monitor_exception; the
\* task has returned, and the platform is among the failures.
C17_LaunchErrorIsMonitorError ==
    \A p \in platforms : LaunchError(p) =>
        /\ monitor_exception[p] # "None"
        /\ pc[p] = "done"
        /\ sup # "returned"

\* C17, amended: the record of a launch that failed with an unexpected error
\* holds no build and no monitor_exception (the error is only logged); the
\* task has returned without any call after that launch and makes none
\* later; the step changes nothing of the other platforms' tasks nor of
\* run(); run() does not return normally, and the platform's failure reason
\* is 'build not started'.
C17_LaunchErrorEndsTask ==
    /\ [](\A p \in platforms : LaunchError(p) =>
            /\ monitor_exception[p] = "None"
            /\ remote[p] = NoBuild
            /\ pc[p] = "done"
            /\ last_call[p].op = "create_worker_build"
            /\ last_call[p].cluster = bi_cluster[p]
            /\ cancel_calls[p] = 0
            /\ sup # "returned"
            /\ Published => /\ p \in DOMAIN fail_reasons
                            /\ fail_reasons[p] = [k \in {"general"} |-> "build not started"])
    /\ [][\A p \in platforms :
            /\ LaunchError(p) => last_call'[p] = last_call[p]
            /\ LaunchErrorStep(p) =>
                  /\ \A q \in platforms \ {p} :
                        pc'[q] = pc[q] /\ last_call'[q] = last_call[q]
                  /\ remote' = remote /\ cancel_calls' = cancel_calls
                  /\ sup' = sup /\ raised' = raised /\ trigger' = trigger]_vars

\* the launch of x86_64 ended in an unexpected error while ppc64le's build
\* went on and completed; run() raised PluginFailedException
C17_Witness ==
    /\ LaunchError("x86_64")
    /\ platforms = AllPlatforms
    /\ build["ppc64le"] = "Complete"
    /\ Published
    /\ DOMAIN fail_reasons = {"x86_64"}

\* the keys of a failure reason
ReasonKeys == {"general", "some_plugin", "pod"}

\* C18: for every record that the tasks leave (with or without a build, with
\* or without a monitor exception) and everything the cluster can answer
\* (metadata with or without 'errors'; a pod lookup that gives a reason,
\* raises OsbsException or raises AttributeError), get_fail_reason raises
\* nothing and returns a dict over the keys of a failure reason; no
\* exception of it ever leaves run().
C18_FailReasonNeverRaises ==
    /\ raised # "AttributeError"
    /\ \A p \in Recorded : \A inp \in FailInputs :
          /\ ~get_fail_reason_raises(build[p], monitor_exception[p], inp)
          /\ DOMAIN get_fail_reason(build[p], monitor_exception[p], inp) \subseteq ReasonKeys
    /\ Published => \A p \in DOMAIN fail_reasons : DOMAIN fail_reasons[p] \subseteq ReasonKeys

\* monitoring the build of x86_64 failed, its metadata had no 'errors' and
\* the pod lookup raised: the reason that was published holds the monitor
\* exception only
C18_Witness ==
    /\ Published
    /\ MonitorFailed("x86_64")
    /\ "x86_64" \in DOMAIN fail_reasons
    /\ fail_reasons["x86_64"] = [k \in {"general"} |-> monitor_exception["x86_64"]]

\* C19: no failure reason that run() publishes is empty, and the reason of a
\* platform whose monitoring failed holds the monitor exception.
C19_FailReasonNeverEmpty ==
    Published => \A p \in DOMAIN fail_reasons :
        /\ fail_reasons[p] # EmptyDict
        /\ MonitorFailed(p) => /\ "general" \in DOMAIN fail_reasons[p]
                               /\ fail_reasons[p]["general"] = monitor_exception[p]

\* C20: an error of a cancel request is never what is reported: a task whose
\* monitoring failed returns with the monitor exception in its record
\* whatever its cancel request did, and a run() in which result.get() raised
\* ends raising that exception.
C20_CancelErrorNeverMasks ==
    /\ \A p \in platforms : (own_cancels[p] > 0 /\ pc[p] = "done") =>
          /\ MonitorFailed(p)
          /\ Published => fail_reasons[p]["general"] = monitor_exception[p]
    /\ (sup = "raised" /\ Faulted) => raised = trigger

\* nothing has been done for platform p: no task, no call, no record
Untouched(p) ==
    /\ pc[p] = "idle"
    /\ last_call[p] = NoCall
    /\ remote[p] = NoBuild
    /\ cancel_calls[p] = 0 /\ own_cancels[p] = 0

\* C21: with no platform, run() can only end raising RuntimeError ('No
\* enabled platform to build on'), and it raises it with no platform; no
\* task is started, no load query, launch or cancel request is made, nothing
\* is recorded and the workspace is left as it was.
C21_NoPlatformsRaises ==
    /\ raised = "RuntimeError" => platforms = {}
    /\ platforms = {} =>
          /\ sup \in {"init", "raised"}
          /\ sup = "raised" => raised = "RuntimeError"
          /\ \A p \in AllPlatforms : Untouched(p)
          /\ worker_builds = <<>>
          /\ cancel_todo = {} /\ trigger = "None"
          /\ fail_reasons = EmptyDict
          /\ workspace = [koji_upload_dir |-> Absent, build_info |-> EmptyDict]

\* run() was called with no platform and has raised
C21_Witness ==
    /\ platforms = {}
    /\ sup = "raised"
    /\ raised = "RuntimeError"

\* where the task of a platform is: in get_clusters (or before its first
\* call), in the loop over the ranking, in do_worker_build past the launch,
\* or ended
Phase(p) ==
    CASE pc[p] = "idle" -> "NOT_STARTED"
      [] pc[p] \in {"start", "get_clusters", "for_clusters"} -> "SELECTING"
      [] pc[p] = "launch" -> "LAUNCHING"
      [] pc[p] \in {"created", "watch_logs", "wait_to_finish", "cancel_build"} -> "MONITORING"
      [] pc[p] \in {"done", "raised"} -> "DONE"

\* the changes of phase of a task
PhaseEdges ==
    {<<"NOT_STARTED", "SELECTING">>,
     <<"SELECTING", "LAUNCHING">>, <<"LAUNCHING", "MONITORING">>, <<"MONITORING", "DONE">>,
     <<"LAUNCHING", "SELECTING">>,
     <<"SELECTING", "DONE">>, <<"LAUNCHING", "DONE">>}

\* C22: a task changes its phase only along SELECTING -> LAUNCHING ->
\* MONITORING -> DONE, back from LAUNCHING to SELECTING after a launch that
\* was rejected (a failure is recorded by that step), or into DONE; it
\* enters MONITORING only by the launch that gave it a build, and it never
\* leaves DONE.
C22_TaskPhases ==
    /\ [](\A p \in platforms : Phase(p) = "MONITORING" => remote[p] # NoBuild)
    /\ [][\A p \in platforms :
            /\ Phase(p)' # Phase(p) => <<Phase(p), Phase(p)'>> \in PhaseEdges
            /\ Phase(p) = "DONE" => pc'[p] = pc[p]
            /\ (Phase(p) = "LAUNCHING" /\ Phase(p)' = "SELECTING") =>
                  \E c \in enabled[p] : /\ last_call'[p].cluster = c
                                        /\ fails'[p][c] = fails[p][c] + 1
            /\ (Phase(p) # "MONITORING" /\ Phase(p)' = "MONITORING") =>
                  /\ Phase(p) = "LAUNCHING"
                  /\ remote[p] = NoBuild /\ remote'[p] = "Running"
                  /\ last_call'[p].op = "create_worker_build"]_vars

\* the launch on the only cluster was rejected and the task is back in
\* get_clusters, with the failure recorded
C22_Witness ==
    /\ pc["x86_64"] = "get_clusters"
    /\ last_call["x86_64"].op = "create_worker_build"
    /\ fails["x86_64"]["a"] = last_call["x86_64"].fails + 1
    /\ retry_in["x86_64"]["a"] = FailureRetryDelay

\* C23: from the launch that created its build on, the task of a platform
\* makes no load query and no launch and goes nowhere but on with the
\* monitoring or to its end, and while it runs no failure is recorded in its
\* retry contexts; a task whose monitoring raised is cancelling its build or
\* has returned, its last call still being the launch of that build.
C23_NoReselectionAfterLaunch ==
    /\ [](\A p \in platforms : MonitorFailed(p) =>
            /\ pc[p] \in {"cancel_build", "done"}
            /\ last_call[p].op = "create_worker_build"
            /\ last_call[p].cluster = bi_cluster[p])
    /\ [][\A p \in platforms : remote[p] # NoBuild =>
            /\ last_call'[p] = last_call[p]
            /\ Phase(p)' \in {"MONITORING", "DONE"}
            /\ Phase(p)' = "MONITORING" => /\ fails'[p] = fails[p]
                                           /\ candidates'[p] = candidates[p]
                                           /\ possible_cluster_info'[p] = possible_cluster_info[p]
            /\ \A c \in enabled[p] : fails'[p][c] <= fails[p][c]]_vars

\* the first launch was rejected, the second one gave a build; waiting for
\* it raised, the build was cancelled and the task returned
C23_Witness ==
    /\ pc["x86_64"] = "done"
    /\ MonitorFailed("x86_64")
    /\ monitor_exception["x86_64"] = "wait failed"
    /\ remote["x86_64"] = "Cancelled"
    /\ last_call["x86_64"].fails = 1

\* the delays that try_again_later is called with
RetryDelays == {FindClusterRetryDelay, FailureRetryDelay}

\* C24: applied to a cluster that is not dead, try_again_later adds one to
\* its fails and sets its retry_at to now + delay, and touches no other
\* context; applied to a dead one it changes nothing. While a task runs the
\* fails of its clusters stay within 0..max_cluster_fails, never decrease,
\* grow by one at a time together with a new retry_at, and a dead cluster
\* stays dead; a retry_at changes otherwise only by time passing.
C24_RecordFailure ==
    /\ [](\A p \in platforms : \A c \in enabled[p] : \A d \in RetryDelays :
            LET ctx == try_again_later(p, c, d)
            IN IF failed(p, c)
               THEN ctx.fails = fails /\ ctx.retry_in = retry_in
               ELSE /\ ctx.fails = [fails EXCEPT ![p][c] = fails[p][c] + 1]
                    /\ ctx.retry_in = [retry_in EXCEPT ![p][c] = d])
    /\ [](\A p \in AllPlatforms : \A c \in ClusterNames :
            fails[p][c] \in 0..MaxClusterFails)
    /\ [][\A p \in platforms : \A c \in enabled[p] : pc'[p] # "done" =>
            /\ fails'[p][c] \in {fails[p][c], fails[p][c] + 1}
            /\ failed(p, c) => (failed(p, c))'
            /\ fails'[p][c] = fails[p][c] + 1 =>
                  /\ ~failed(p, c)
                  /\ retry_in'[p][c] = IF last_call'[p].op = "list_builds"
                                       THEN FindClusterRetryDelay ELSE FailureRetryDelay
            /\ fails'[p][c] = fails[p][c] =>
                  retry_in'[p][c] \in {retry_in[p][c], retry_in[p][c] - 1}]_vars

\* the load query of cluster a has just failed for the last time allowed:
\* a is dead, its retry_at is the one of that failure; b has failed once
C24_Witness ==
    /\ pc["x86_64"] \in {"get_clusters", "for_clusters"}
    /\ last_call["x86_64"].op = "list_builds"
    /\ last_call["x86_64"].cluster = "a"
    /\ last_call["x86_64"].fails = MaxClusterFails - 1
    /\ failed("x86_64", "a")
    /\ retry_in["x86_64"]["a"] = FindClusterRetryDelay
    /\ fails["x86_64"]["b"] = 1

\* wait_for_any_cluster has just returned to get_clusters: the sleep is
\* over and the for loop has not visited any candidate yet
JustWaited(p) ==
    /\ pc[p] = "for_clusters"
    /\ sleep_left[p] = 0
    /\ Len(todo[p]) = Cardinality(candidates[p])

\* C25: when wait_for_any_cluster returns, the earliest retry_at of the
\* clusters that are not dead has been reached (some such cluster is out of
\* its retry wait); it raises AllClustersFailedException exactly when every
\* cluster of the platform is dead, and then without sleeping.
C25_WaitsForEarliestRetry ==
    /\ [](\A p \in platforms : JustWaited(p) =>
            \E c \in enabled[p] : ~failed(p, c) /\ ~in_retry_wait(p, c))
    /\ [][\A p \in platforms : (pc[p] = "get_clusters" /\ pc'[p] # "get_clusters") =>
            /\ pc'[p] = "done" <=> \A c \in enabled[p] : failed(p, c)
            /\ pc'[p] = "done" => /\ sleep_left'[p] = 0
                                  /\ monitor_exception'[p] = AllClustersFailedMsg
            /\ pc'[p] # "done" =>
                  \A c \in enabled[p] : ~failed(p, c) => sleep_left'[p] <= retry_in[p][c]]_vars

\* a round of get_clusters ends with every candidate dead: line 422 leaves
\* no candidate
CandidatesRunOut(p) ==
    /\ pc[p] = "for_clusters" /\ pc'[p] # "for_clusters"
    /\ \A c \in candidates[p] : (failed(p, c))'

\* C26 as stated: when the candidates run out during the selection, the
\* selection ends there in AllClustersFailedException (the task records the
\* placeholder and returns).
C26_EmptyCandidatesFail ==
    [][\A p \in platforms : CandidatesRunOut(p) =>
          /\ pc'[p] = "done"
          /\ monitor_exception'[p] = AllClustersFailedMsg]_vars

\* C26, amended: when the candidates run out, get_clusters returns an empty
\* ranking: the task has nothing to launch and is at the top of a new call
\* of get_clusters, with all the platform's clusters as candidates again and
\* all of them dead; its next step is the AllClustersFailedException of
\* wait_for_any_cluster, with no sleep and no call before it. The loop of
\* get_clusters never runs without candidates, and a launch always has a
\* cluster of a ranking to go to.
C26_EmptyRankingThenFail ==
    /\ [](\A p \in platforms :
            /\ pc[p] \in {"get_clusters", "for_clusters"} => candidates[p] # {}
            /\ pc[p] = "launch" => possible_cluster_info[p] # <<>>)
    /\ [][\A p \in platforms :
            /\ CandidatesRunOut(p) =>
                  /\ pc'[p] = "get_clusters"
                  /\ possible_cluster_info'[p] = <<>>
                  /\ candidates'[p] = enabled[p]
                  /\ \A c \in enabled[p] : (failed(p, c))'
                  /\ worker_builds' = worker_builds
            /\ (pc[p] = "get_clusters" /\ pc'[p] # "get_clusters"
                  /\ \A c \in enabled[p] : failed(p, c)) =>
                  /\ pc'[p] = "done"
                  /\ monitor_exception'[p] = AllClustersFailedMsg
                  /\ build'[p] = NoBuild
                  /\ last_call'[p] = last_call[p]]_vars

\* the last load query of a round killed the last candidate: get_clusters
\* has returned an empty ranking and is called again
C26_Witness ==
    /\ pc["x86_64"] = "get_clusters"
    /\ last_call["x86_64"].op = "list_builds"
    /\ possible_cluster_info["x86_64"] = <<>>
    /\ candidates["x86_64"] = {"a", "b"}
    /\ \A c \in {"a", "b"} : failed("x86_64", c)
    /\ "x86_64" \notin Recorded

\* the clusters of a sequence of ClusterInfo
ClustersOf(infos) == {infos[i].cluster : i \in DOMAIN infos}

\* the load query of cluster c by the task of p raises OsbsException
QueryFails(p, c) ==
    /\ pc[p] = "for_clusters"
    /\ todo[p] # <<>> /\ c = Head(todo[p])
    /\ fails'[p][c] = fails[p][c] + 1

\* C27: the step in which a load query raises OsbsException counts one
\* failure of that cluster, with retry_at = now + find_cluster_retry_delay,
\* and leaves the cluster out of what has answered in this round; the
\* cluster is dead after it exactly if that was its max_cluster_fails-th
\* failure; the task goes on with the round, the next round or the launch
\* on the ranking, and nothing is recorded in worker_builds. During a round
\* the clusters that have answered are not visited again, so the ranking of
\* the round holds no cluster whose query failed in it.
C27_QueryFailureExcluded ==
    /\ [](\A p \in platforms : pc[p] = "for_clusters" =>
            ClustersOf(possible_cluster_info[p]) \cap Range(todo[p]) = {})
    /\ [][\A p \in platforms : \A c \in enabled[p] : QueryFails(p, c) =>
            /\ fails[p][c] < MaxClusterFails
            /\ retry_in'[p][c] = FindClusterRetryDelay
            /\ \A d \in enabled[p] \ {c} : fails'[p][d] = fails[p][d]
            /\ c \notin ClustersOf(possible_cluster_info'[p])
            /\ last_call'[p].op = "list_builds" /\ last_call'[p].cluster = c
            /\ (failed(p, c))' <=> fails[p][c] = MaxClusterFails - 1
            /\ pc'[p] \in {"for_clusters", "get_clusters", "launch"}
            /\ pc'[p] = "launch" => possible_cluster_info'[p] # <<>>
            /\ worker_builds' = worker_builds /\ sup' = sup]_vars

\* in this round the load query of a failed and b answered: the ranking
\* holds b only, and a has one failure and waits for its retry
C27_Witness ==
    /\ pc["x86_64"] = "launch"
    /\ ClustersOf(possible_cluster_info["x86_64"]) = {"b"}
    /\ fails["x86_64"]["a"] = 1 /\ fails["x86_64"]["b"] = 0
    /\ retry_in["x86_64"]["a"] = FindClusterRetryDelay
    /\ last_call["x86_64"].op = "list_builds"

\* C28: every load query and every launch is made of a cluster that at that
\* moment is neither dead nor in its retry wait. A retry wait comes to its
\* end only by time passing, tick by tick, from the delay that the failure
\* set it to: find_cluster_retry_delay after a failed load query,
\* failure_retry_delay after a rejected launch.
C28_NoContactInBackoff ==
    /\ [](\A p \in platforms : last_call[p].op # "none" =>
            /\ last_call[p].fails < MaxClusterFails
            /\ last_call[p].retry_in = 0)
    /\ [][\A p \in platforms : \A c \in enabled[p] : pc'[p] # "done" =>
            /\ retry_in'[p][c] < retry_in[p][c] =>
                  /\ retry_in'[p][c] = retry_in[p][c] - 1
                  /\ pc' = pc /\ last_call' = last_call
            /\ retry_in'[p][c] > retry_in[p][c] =>
                  /\ retry_in[p][c] = 0
                  /\ last_call'[p].cluster = c
                  /\ retry_in'[p][c] = IF last_call'[p].op = "list_builds"
                                       THEN FindClusterRetryDelay ELSE FailureRetryDelay]_vars

\* cluster a failed once and, its retry wait over, is launched on, while
\* cluster b is still in its retry wait
C28_Witness ==
    /\ last_call["x86_64"].op = "create_worker_build"
    /\ last_call["x86_64"].cluster = "a"
    /\ last_call["x86_64"].fails = 1
    /\ last_call["x86_64"].retry_in = 0
    /\ pc["x86_64"] = "created"
    /\ in_retry_wait("x86_64", "b")

\* create_worker_build raises OsbsException: the task of p goes on to the
\* rest of its ranking
LaunchRejected(p) ==
    /\ pc[p] = "launch"
    /\ pc'[p] \in {"launch", "get_clusters"}
    /\ possible_cluster_info'[p] # possible_cluster_info[p]

\* C29: every launch goes to the first cluster left in the ranking. The
\* step in which a launch is rejected counts one failure of that cluster,
\* with retry_at = now + failure_retry_delay, and takes the cluster off the
\* ranking; if clusters are left the task stays at the launch, which goes
\* to the next of them; only if none is left it calls get_clusters again.
\* The ranking changes during the launches in no other way.
C29_NextCandidateOnRejection ==
    [][\A p \in platforms :
          /\ (pc[p] = "launch" /\ pc'[p] # "launch") =>
                last_call'[p].cluster = Head(possible_cluster_info[p]).cluster
          /\ LaunchRejected(p) =>
                LET c == Head(possible_cluster_info[p]).cluster
                    rest == Tail(possible_cluster_info[p])
                IN /\ last_call'[p].op = "create_worker_build"
                   /\ last_call'[p].cluster = c
                   /\ fails'[p][c] = fails[p][c] + 1
                   /\ retry_in'[p][c] = FailureRetryDelay
                   /\ remote'[p] = NoBuild
                   /\ IF rest # <<>>
                      THEN pc'[p] = "launch" /\ possible_cluster_info'[p] = rest
                      ELSE pc'[p] = "get_clusters" /\ possible_cluster_info'[p] = <<>>
          /\ (pc[p] = "launch" /\ pc'[p] = "launch") =>
                \/ possible_cluster_info'[p] = possible_cluster_info[p]
                \/ LaunchRejected(p)
          /\ (pc[p] = "launch" /\ pc'[p] = "get_clusters") =>
                Len(possible_cluster_info[p]) = 1]_vars

\* the ranking held two clusters; the launch on the first was rejected, its
\* failure is recorded, and the task is about to launch on the second
C29_Witness ==
    /\ pc["x86_64"] = "launch"
    /\ Len(possible_cluster_info["x86_64"]) = 1
    /\ last_call["x86_64"].op = "create_worker_build"
    /\ last_call["x86_64"].cluster # possible_cluster_info["x86_64"][1].cluster
    /\ fails["x86_64"][last_call["x86_64"].cluster] = last_call["x86_64"].fails + 1
    /\ retry_in["x86_64"][last_call["x86_64"].cluster] = FailureRetryDelay

\* the task of p ends a round of get_clusters: the for loop is through
RoundEnds(p) == pc[p] = "for_clusters" /\ pc'[p] # "for_clusters"

\* C30: in every iteration of its for loop (the steps that take a cluster
\* off todo) get_clusters adds at most the cluster it visits to the
\* answers. It goes into another round only when no cluster has answered
\* in this one, and every round starts with no answers. When a
\* round ends in which a cluster has answered, the task goes on to the
\* launches at once, without sleeping, whatever clusters are in their retry
\* wait; the ranking holds each cluster that answered in this round once
\* and no other: a cluster that was skipped as waiting or dead, or whose
\* query failed, adds nothing to it.
C30_RoundEndsOnFirstAnswers ==
    /\ [](\A p \in platforms : pc[p] = "get_clusters" => possible_cluster_info[p] = <<>>)
    /\ [][\A p \in platforms :
            /\ (pc[p] = "for_clusters" /\ todo'[p] # todo[p]) =>
                  LET c == Head(todo[p])
                      before == ClustersOf(possible_cluster_info[p])
                      after == ClustersOf(possible_cluster_info'[p])
                  IN /\ pc'[p] \in {"for_clusters", "launch"} =>
                           /\ before \subseteq after /\ after \subseteq before \cup {c}
                           /\ (in_retry_wait(p, c) \/ failed(p, c)
                                 \/ fails'[p][c] # fails[p][c]) => after = before
                           /\ Len(possible_cluster_info'[p]) = Cardinality(after)
                     /\ pc'[p] = "for_clusters" => todo[p] # <<>> /\ Tail(todo[p]) # <<>>
            /\ RoundEnds(p) =>
                  /\ Tail(todo[p]) = <<>>
                  /\ pc'[p] \in {"launch", "get_clusters"}
                  /\ pc'[p] = "get_clusters" =>
                        /\ possible_cluster_info[p] = <<>>
                        /\ possible_cluster_info'[p] = <<>>
                  /\ pc'[p] = "launch" =>
                        /\ possible_cluster_info'[p] # <<>>
                        /\ sleep_left'[p] = 0
                  /\ possible_cluster_info[p] # <<>> => pc'[p] = "launch"]_vars

\* cluster a is in its retry wait since an earlier round; in this round it
\* was skipped and b answered: the ranking holds b alone and the task is
\* at the launch
C30_Witness ==
    /\ pc["x86_64"] = "launch"
    /\ ClustersOf(possible_cluster_info["x86_64"]) = {"b"}
    /\ last_call["x86_64"].op = "list_builds"
    /\ last_call["x86_64"].cluster = "b"
    /\ last_call["x86_64"].fails = 1
    /\ in_retry_wait("x86_64", "a")
    /\ retry_in["x86_64"]["a"] < FindClusterRetryDelay
    /\ ~failed("x86_64", "a")

\* the record of p is the placeholder of a platform without usable cluster
Placeholder(p) ==
    /\ p \in Recorded
    /\ monitor_exception[p] = AllClustersFailedMsg

\* C31: the step that records the placeholder of a platform is taken with
\* every cluster of the platform at max_cluster_fails, and the platform has
\* clusters; the placeholder has no build and no cluster, and no build of
\* the platform exists on any cluster.
C31_PlaceholderOnlyWhenAllDead ==
    /\ [](\A p \in platforms : Placeholder(p) =>
            /\ build[p] = NoBuild /\ bi_cluster[p] = "None"
            /\ remote[p] = NoBuild
            /\ enabled[p] # {}
            /\ pc[p] = "done")
    /\ [][\A p \in platforms : (~Placeholder(p) /\ Placeholder(p)') =>
            /\ pc[p] = "get_clusters"
            /\ \A c \in enabled[p] : fails[p][c] >= MaxClusterFails]_vars

\* both clusters are dead, b since the launch on it was rejected, and the
\* placeholder is recorded
C31_Witness ==
    /\ Placeholder("x86_64")
    /\ enabled["x86_64"] = {"a", "b"}
    /\ last_call["x86_64"].op = "create_worker_build"
    /\ last_call["x86_64"].cluster = "b"
    /\ last_call["x86_64"].fails = MaxClusterFails - 1

\* an iteration of get_clusters' for loop by the task of p
Iteration(p) == pc[p] = "for_clusters" /\ todo'[p] # todo[p]

\* C32: a cluster that has failed fewer than max_cluster_fails times and
\* whose retry wait is over is asked for its load when get_clusters gets to
\* it, like one that never failed; an answer changes nothing of its
\* failures; and a platform that has a build on a cluster never gets the
\* placeholder: when its task has returned, its record holds the build and
\* the cluster of the launch that was accepted.
C32_RecoveryAfterBackoff ==
    /\ [](\A p \in platforms : remote[p] # NoBuild =>
            /\ ~Placeholder(p)
            /\ last_call[p].op = "create_worker_build"
            /\ pc[p] = "done" => /\ p \in Recorded
                                 /\ build[p] # NoBuild
                                 /\ bi_cluster[p] = last_call[p].cluster)
    /\ [][\A p \in platforms : Iteration(p) =>
            LET c == Head(todo[p])
            IN /\ (~failed(p, c) /\ retry_in[p][c] = 0) =>
                     /\ last_call'[p].op = "list_builds"
                     /\ last_call'[p].cluster = c
                     /\ last_call'[p].fails = fails[p][c]
               /\ c \in ClustersOf(possible_cluster_info'[p]) =>
                     /\ last_call'[p].cluster = c
                     /\ fails'[p] = fails[p] /\ retry_in'[p] = retry_in[p]]_vars

\* the only cluster had failed max_cluster_fails - 1 times when it answered
\* and accepted the launch; the build completed and is recorded
C32_Witness ==
    /\ pc["x86_64"] = "done"
    /\ build["x86_64"] = "Complete"
    /\ bi_cluster["x86_64"] = "a"
    /\ enabled["x86_64"] = {"a"}
    /\ last_call["x86_64"].op = "create_worker_build"
    /\ last_call["x86_64"].fails = MaxClusterFails - 1

\* the task of p is in watch_logs or in wait_to_finish
Monitoring(p) == pc[p] \in {"watch_logs", "wait_to_finish"}

\* C33: a task is in watch_logs or wait_to_finish only with the build that
\* its last call, a create_worker_build, returned: the build exists on the
\* cluster and is in the task's record. It gets to watch_logs only from the
\* launch that returned the build, and to wait_to_finish only from
\* watch_logs. A record without build belongs to a task that has returned
\* and holds no exception of any monitoring.
C33_LaunchBeforeMonitoring ==
    /\ [](\A p \in platforms :
            /\ Monitoring(p) =>
                  /\ remote[p] # NoBuild
                  /\ p \in Recorded /\ build[p] # NoBuild
                  /\ last_call[p].op = "create_worker_build"
                  /\ last_call[p].cluster = bi_cluster[p]
            /\ (p \in Recorded /\ build[p] = NoBuild) =>
                  /\ pc[p] = "done"
                  /\ monitor_exception[p] \in {"None", AllClustersFailedMsg})
    /\ [][\A p \in platforms :
            /\ (pc'[p] = "created" /\ pc[p] # "created") =>
                  /\ pc[p] = "launch"
                  /\ remote[p] = NoBuild /\ remote'[p] = "Running"
            /\ (pc'[p] = "watch_logs" /\ pc[p] # "watch_logs") => pc[p] = "created"
            /\ (pc'[p] = "wait_to_finish" /\ pc[p] # "wait_to_finish") =>
                  pc[p] = "watch_logs"]_vars

\* the launch of ppc64le returned no build and its task has returned
\* without monitoring anything, while x86_64 streams the logs of its build
C33_Witness ==
    /\ pc["x86_64"] = "watch_logs"
    /\ build["x86_64"] = "Running"
    /\ LaunchError("ppc64le")
    /\ pc["ppc64le"] = "done"
    /\ monitor_exception["ppc64le"] = "None"

\* C34 as stated: the end of a build is seen although its log stream goes
\* on: whenever the build has ended on its cluster while the task streams
\* its logs, the task gets to see the finished build, or the stream ends.
C34_LogsBesideWait ==
    \A p \in AllPlatforms :
        (pc[p] = "watch_logs" /\ is_finished(remote[p]))
            ~> (pc[p] # "watch_logs" \/ is_finished(build[p]))

\* C34, amended: wait_to_finish is started only when watch_logs has
\* returned. While the logs are streamed the record holds the build as it
\* was created, whatever has become of it on the cluster, and the task
\* leaves watch_logs only by the stream ending or raising; the finished
\* build gets into the record only by the step of wait_to_finish.
C34_LogsThenWait ==
    /\ [](\A p \in platforms : pc[p] \in {"created", "watch_logs"} =>
            /\ p \in Recorded => build[p] = "Running"
            /\ monitor_exception[p] = "None")
    /\ [][\A p \in platforms :
            /\ (pc'[p] = "wait_to_finish" /\ pc[p] # "wait_to_finish") =>
                  pc[p] = "watch_logs"
            /\ (pc[p] = "watch_logs" /\ pc'[p] # "watch_logs") =>
                  /\ build'[p] = build[p]
                  /\ \/ pc'[p] = "wait_to_finish" /\ monitor_exception'[p] = "None"
                     \/ pc'[p] = "cancel_build" /\ monitor_exception'[p] = "logs failed"
            /\ (build'[p] # build[p] /\ build[p] # NoBuild) =>
                  /\ pc[p] = "wait_to_finish" /\ pc'[p] = "done"
                  /\ is_finished(build'[p]) /\ build'[p] = remote[p]]_vars

\* the build has completed on its cluster while the task still streams its
\* logs: the record holds it as running
C34_Witness ==
    /\ pc["x86_64"] = "watch_logs"
    /\ remote["x86_64"] = "Complete"
    /\ build["x86_64"] = "Running"
    /\ sup = "get"

\* what the task of p alone works on
TaskState(p) ==
    <<pc[p], fails[p], candidates[p], todo[p], possible_cluster_info[p], last_call[p],
      build[p], bi_cluster[p], monitor_exception[p], own_cancels[p]>>

\* C35: once run() has started the tasks, there is a task for each
\* requested platform and for no other; a task that has not ended can take
\* its next step whatever the other tasks are at, unless it sleeps, and
\* then time can pass; and a step of one task changes nothing of what
\* another task works on.
C35_TasksIndependent ==
    /\ [](sup # "init" /\ platforms # {} =>
            \A p \in AllPlatforms : pc[p] # "idle" <=> p \in platforms)
    /\ [](\A p \in platforms : (pc[p] # "idle" /\ ~Finished(p)) =>
            \/ ENABLED Task(p)
            \/ sleep_left[p] > 0 /\ ENABLED Tick)
    /\ [][\A p \in platforms : \A q \in platforms \ {p} :
            (sup # "init" /\ TaskState(p)' # TaskState(p)) =>
                TaskState(q)' = TaskState(q)]_vars

\* the task of x86_64 sleeps in wait_for_any_cluster; meanwhile the task of
\* ppc64le has built and returned
C35_Witness ==
    /\ pc["x86_64"] = "for_clusters"
    /\ sleep_left["x86_64"] > 0
    /\ pc["ppc64le"] = "done"
    /\ build["ppc64le"] = "Complete"

\* the retry contexts of a task as made at lines 557-560
FreshContexts == [c \in ClusterNames |-> 0]

\* C36: a step that counts a failure in the contexts of one platform leaves
\* the fails and the retry_at of every other platform as they are; the
\* contexts of a platform change with the steps of its own task only, but
\* for time passing; a task starts with fails 0 and no retry wait for every
\* cluster, and so does every run.
C36_HealthPerPlatform ==
    /\ [](sup = "init" => \A p \in AllPlatforms :
            fails[p] = FreshContexts /\ retry_in[p] = FreshContexts)
    /\ [](\A p \in AllPlatforms : pc[p] \in {"idle", "start"} =>
            fails[p] = FreshContexts /\ retry_in[p] = FreshContexts)
    /\ [][\A p \in platforms : \A q \in AllPlatforms \ {p} :
            /\ (\E c \in ClusterNames : fails'[p][c] > fails[p][c]) =>
                  fails'[q] = fails[q] /\ retry_in'[q] = retry_in[q]
            /\ fails'[q] # fails[q] => pc'[q] # pc[q] \/ last_call'[q] # last_call[q]
            /\ (pc[p] = "start" /\ pc'[p] = "get_clusters") =>
                  fails'[p] = FreshContexts /\ retry_in'[p] = FreshContexts]_vars

\* both platforms use cluster a: for x86_64 it has failed and is in retry
\* wait, for ppc64le it has no failure and has just accepted the launch
C36_Witness ==
    /\ enabled["x86_64"] = {"a"} /\ enabled["ppc64le"] = {"a"}
    /\ fails["x86_64"]["a"] = 1
    /\ in_retry_wait("x86_64", "a")
    /\ fails["ppc64le"]["a"] = 0
    /\ ~in_retry_wait("ppc64le", "a")
    /\ pc["ppc64le"] = "created"
    /\ last_call["ppc64le"].cluster = "a"

\* the orchestrator build was cancelled while run() waited for the tasks
Cancelled == trigger = "BuildCanceledException"

\* C37: once the dispatch has been cancelled, no task makes a load query or
\* a launch, none starts to sleep, no build appears on a cluster, and a
\* task that streams logs goes on to no further monitoring.
C37_CancelStopsTasks ==
    [][Cancelled => \A p \in platforms :
          /\ last_call'[p] = last_call[p]
          /\ sleep_left'[p] <= sleep_left[p]
          /\ remote[p] = NoBuild => remote'[p] = NoBuild
          /\ pc[p] = "watch_logs" => pc'[p] # "wait_to_finish"]_vars

\* the record of p holds no build, or one that it knows to have finished
NothingToCancel(p) == build[p] = NoBuild \/ is_finished(build[p])

\* C38: every cancel request that a cluster receives is for a platform
\* whose record holds a build that the record does not know as finished,
\* and each step makes one request at most. For a record without build (a
\* placeholder, a failed launch) or with a build that wait_to_finish
\* returned as finished, no request is made and nothing changes on the
\* cluster, whoever cancels.
C38_CancelOnlyUnfinished ==
    [][\A p \in platforms :
          /\ cancel_calls'[p] # cancel_calls[p] =>
                /\ cancel_calls'[p] = cancel_calls[p] + 1
                /\ p \in Recorded /\ ~NothingToCancel(p)
                /\ pc[p] = "cancel_build" \/ sup = "cancelling"
          /\ (p \in Recorded /\ NothingToCancel(p)) =>
                /\ cancel_calls'[p] = cancel_calls[p]
                /\ remote'[p] = remote[p]
                /\ build'[p] = build[p]]_vars

\* the build of x86_64 had completed and ppc64le had got its placeholder
\* when the orchestrator build was cancelled: the cancelling pool has
\* visited both records and has asked no cluster for anything
C38_Witness ==
    /\ Cancelled /\ sup = "raised" /\ raised = trigger
    /\ Len(worker_builds) = 2
    /\ build["x86_64"] = "Complete"
    /\ Placeholder("ppc64le")
    /\ \A p \in AllPlatforms : cancel_calls[p] = 0

\* the task of p is in the loop of select_and_start_cluster, before a build
\* of its own exists
Selecting(p) == pc[p] \in {"get_clusters", "for_clusters", "launch"}

\* the failures that the contexts of p have recorded on cluster c, as a
\* set of tokens (one for each failure)
Recorded_Fails(p) == {<<c, n>> \in ClusterNames \X (1..MaxClusterFails) : n <= fails[p][c]}

\* C39: every task that run() has started comes to its end, returning or
\* raising. The loop of selection and launch cannot go on for ever: no
\* cluster has more than max_cluster_fails failures recorded, a recorded
\* failure is not taken back while the task is selecting, a launch that is
\* rejected and every query that fails records one more failure for a
\* cluster that was not dead, and from every point of the loop the task
\* gets out of the loop or to one more recorded failure.
C39_TasksTerminate ==
    /\ \A p \in AllPlatforms : (pc[p] # "idle") ~> Finished(p)
    /\ [](\A p \in AllPlatforms : \A c \in ClusterNames : fails[p][c] <= MaxClusterFails)
    /\ [][\A p \in platforms : (Selecting(p) /\ Selecting(p)') =>
            /\ \A c \in ClusterNames : fails'[p][c] >= fails[p][c]
            /\ (pc[p] = "launch" /\ pc'[p] = "get_clusters") =>
                  Cardinality(Recorded_Fails(p)') = Cardinality(Recorded_Fails(p)) + 1
            /\ (last_call'[p] # last_call[p] /\ pc[p] = "for_clusters"
                  /\ possible_cluster_info'[p] = possible_cluster_info[p]
                  /\ pc'[p] = "for_clusters") =>
                  Cardinality(Recorded_Fails(p)') = Cardinality(Recorded_Fails(p)) + 1]_vars
    /\ \A p \in AllPlatforms : \A k \in 0..(2 * MaxClusterFails) :
          (Selecting(p) /\ Cardinality(Recorded_Fails(p)) = k)
              ~> (~Selecting(p) \/ Cardinality(Recorded_Fails(p)) > k)

\* the task has come to its end after both clusters had failed as often as
\* allowed: the placeholder is recorded
C39_Witness ==
    /\ pc["x86_64"] = "done"
    /\ Placeholder("x86_64")
    /\ last_call["x86_64"].fails = MaxClusterFails - 1
    /\ enabled["x86_64"] = {"a", "b"}

\* the plugin's workspace before run() has put anything in it
EmptyWorkspace == [koji_upload_dir |-> Absent, build_info |-> EmptyDict]

\* C40: the workspace holds the upload dir and the records exactly when
\* run() has returned or has raised PluginFailedException, which it does
\* only with every task returned and nothing raised by result.get(); it then
\* holds the upload dir and the record of every platform, those of the
\* failed builds too, and it is filled in by the very step that raises
\* PluginFailedException, in one piece and once. When run() ends in any
\* other way (no platform, an exception of a task, cancellation) the
\* workspace is as it was, and it is whenever result.get() has raised.
C40_WorkspaceWrittenOnSettle ==
    /\ [](workspace # EmptyWorkspace <=> Published)
    /\ [](Published =>
            /\ \A p \in platforms : pc[p] = "done"
            /\ trigger = "None"
            /\ workspace.koji_upload_dir = koji_upload_dir
            /\ DOMAIN workspace.build_info = platforms
            /\ \A p \in platforms : workspace.build_info[p].build = build[p])
    /\ []((RunEnded /\ platforms # {} /\ trigger = "None") => Published)
    /\ []((trigger # "None" \/ (RunEnded /\ ~Published)) => workspace = EmptyWorkspace)
    /\ [][/\ workspace' # workspace =>
                /\ workspace = EmptyWorkspace
                /\ sup = "get" /\ RunEnded'
          /\ (raised' = "PluginFailedException" /\ raised # "PluginFailedException") =>
                /\ workspace' # EmptyWorkspace
                /\ DOMAIN fail_reasons' # {}]_vars

\* run() has raised PluginFailedException for the failed build of x86_64:
\* the workspace holds it beside the complete build of ppc64le
C40_Witness ==
    /\ sup = "raised" /\ raised = "PluginFailedException"
    /\ platforms = AllPlatforms
    /\ workspace.koji_upload_dir = koji_upload_dir
    /\ DOMAIN workspace.build_info = AllPlatforms
    /\ workspace.build_info["x86_64"].build = "Failed"
    /\ workspace.build_info["ppc64le"].build = "Complete"
    /\ DOMAIN fail_reasons = {"x86_64"}

====
